---- MODULE Spec2Model ----
(***************************************************************************)
(* Leviatan: the liquid-democracy delegation ledger (src/delegation.py),   *)
(* the proposals with their votes (src/voting.py), the requirements of the *)
(* articles (src/constitution.py, src/utility.py) and the debate of the    *)
(* modifications (src/debate_system.py).                                   *)
(*                                                                         *)
(* The registry DelegationSystem.voters maps a voter id to its Voter       *)
(* record.  Python dictionaries keep insertion order and detect_cycles     *)
(* iterates Voter.delegations in that order, so a dictionary is modelled   *)
(* as a sequence of entries [id, points, subdelegable], newest last.       *)
(*                                                                         *)
(* The registry VotingSystem.proposals maps a proposal id to its Proposal  *)
(* record.  The systems share no state: the operations of one leave the    *)
(* variables of the others alone.                                          *)
(***************************************************************************)
EXTENDS Integers, Sequences, FiniteSets, TLC

VARIABLES
    voters,          \* DelegationSystem.voters : id -> Voter record
    last,            \* what the most recent call returned to its caller
    subdelegated,    \* history: points each voter passed on by subdelegate_points
    nops,            \* number of calls made so far
    proposals,       \* VotingSystem.proposals : proposal id -> Proposal record
    proposal_locks,  \* the keys of VotingSystem.proposal_locks
    last_cleanup,    \* VotingSystem.last_cleanup, in days
    now,             \* datetime.now(), in days
    returned,        \* what the most recent call of the voting system returned
    mutated,         \* history: the day of each proposal's last mutating call
    calls,           \* number of calls of the voting system and clock steps so far
    constitution,    \* Constitution.articles : article id -> article record
    modifications,   \* DebateSystem.modifications : proposal id -> mod id -> modification
    proposal_articles, \* DebateSystem.proposal_articles : proposal id -> article ids
    tasks,           \* the coroutines on the event loop, each with its position
    executor,        \* the writes handed to VotingSystem.executor and not finished
    data_file        \* what Data/proposals.json holds

ledgerVars == <<voters, last, subdelegated, nops>>

votingVars ==
    <<proposals, proposal_locks, last_cleanup, now, returned, mutated, calls>>

constitutionVars == <<constitution>>

debateVars == <<modifications, proposal_articles>>

loopVars == <<tasks, executor, data_file>>

vars == <<ledgerVars, votingVars, constitutionVars, debateVars, loopVars>>

----------------------------------------------------------------------------
(* Inputs and bounds *)

\* voter ids the callers use
Ids == {"A", "B", "C"}

\* values of the points argument the callers use: Points with every
\* operation of the ledger, CyclePoints with the delegations alone
Points == {0, 400, 600}

CyclePoints == {200, 300, 500}

\* number of calls in one behaviour of Spec
MaxOps == 4

\* number of calls in one behaviour of SpecCycle
MaxCycleOps == 3

\* Voter.base_points
base_points == 1000

\* Voter.RESERVED_POINTS
RESERVED_POINTS == 2

----------------------------------------------------------------------------
(* Insertion-ordered dictionaries {id: {'points', 'subdelegable'}} *)

HasKey(d, k) == \E i \in 1..Len(d) : d[i].id = k

IndexOf(d, k) == CHOOSE i \in 1..Len(d) : d[i].id = k

Entry(d, k) == d[IndexOf(d, k)]

\* d[k] = {'points': 0, 'subdelegable': sub} for a key that is absent
NewKey(d, k, sub) == Append(d, [id |-> k, points |-> 0, subdelegable |-> sub])

\* d[k]['points'] += n
AddPoints(d, k, n) == [d EXCEPT ![IndexOf(d, k)].points = @ + n]

\* del d[k]
DelKey(d, k) == SelectSeq(d, LAMBDA e : e.id # k)

RECURSIVE SumPoints(_)
SumPoints(d) == IF d = <<>> THEN 0 ELSE Head(d).points + SumPoints(Tail(d))

InSeq(x, s) == \E i \in 1..Len(s) : s[i] = x

----------------------------------------------------------------------------
(* Voter *)

\* Voter.__init__
NewVoter ==
    [ available_points |-> base_points - RESERVED_POINTS,
      delegations      |-> <<>>,
      received_points  |-> <<>> ]

\* Voter.get_delegatable_points
get_delegatable_points(voter) == voter.available_points - RESERVED_POINTS

----------------------------------------------------------------------------
(* DelegationSystem.add_voter *)

\* add_voter without the membership test: the record is made anew each time
add_voter_overwrite(V, voter_id) ==
    [ ok |-> TRUE,
      voters |-> [v \in DOMAIN V \cup {voter_id} |->
                     IF v = voter_id THEN NewVoter ELSE V[v]] ]

add_voter(V, voter_id) ==
    IF voter_id \notin DOMAIN V
    THEN [ ok |-> TRUE,
           voters |-> [v \in DOMAIN V \cup {voter_id} |->
                          IF v = voter_id THEN NewVoter ELSE V[v]] ]
    ELSE [ ok |-> FALSE, voters |-> V ]

----------------------------------------------------------------------------
(* DelegationSystem.detect_cycles *)

RECURSIVE find_cycles_dfs(_, _, _), visit_delegates(_, _, _, _)

\* the cycles appended while visiting `current` with `path` behind it
find_cycles_dfs(V, current, path) ==
    IF InSeq(current, path)
    THEN LET cycle_start == CHOOSE i \in 1..Len(path) : path[i] = current
         IN  << SubSeq(path, cycle_start, Len(path)) >>
    ELSE IF current \in DOMAIN V
         THEN visit_delegates(V, V[current].delegations, 1, Append(path, current))
         ELSE <<>>

\* for delegate in self.voters[current].delegations: find_cycles_dfs(...)
visit_delegates(V, dels, i, path) ==
    IF i > Len(dels) THEN <<>>
    ELSE find_cycles_dfs(V, dels[i].id, path) \o visit_delegates(V, dels, i + 1, path)

\* the detection that reports the cycles of two voters or more
detect_cycles_of_two(V, start_voter) ==
    SelectSeq(find_cycles_dfs(V, start_voter, <<>>), LAMBDA c : Len(c) >= 2)

detect_cycles(V, start_voter) == find_cycles_dfs(V, start_voter, <<>>)

----------------------------------------------------------------------------
(* DelegationSystem.clean_delegation_cycle *)

\* the pairs (cycle[i], cycle[(i + 1) % len(cycle)])
cycle_edges(cycle) ==
    [i \in 1..Len(cycle) |-> [from |-> cycle[i], to |-> cycle[(i % Len(cycle)) + 1]]]

\* cycle_delegations: the pairs that are delegations now, with their points
cycle_delegations(V, cycle) ==
    LET present(e) == /\ e.from \in DOMAIN V
                      /\ e.to \in DOMAIN V
                      /\ HasKey(V[e.from].delegations, e.to)
        found == SelectSeq(cycle_edges(cycle), present)
    IN  [i \in 1..Len(found) |->
            [from |-> found[i].from, to |-> found[i].to,
             points |-> Entry(V[found[i].from].delegations, found[i].to).points]]

\* points_in_cycle taken from the first delegation of the cycle instead
first_points(cds) == cds[1].points

\* points_in_cycle: the least points among cycle_delegations
min_points(cds) ==
    CHOOSE m \in {cds[i].points : i \in 1..Len(cds)} :
        \A i \in 1..Len(cds) : m <= cds[i].points

\* the loop pass that touches the delegation of the origin alone
reduce_origin_delegation(V, e, points_in_cycle, origin_voter) ==
    IF e.from # origin_voter THEN V
    ELSE LET V1 == [V EXCEPT ![e.from].delegations = AddPoints(@, e.to, -points_in_cycle)]
             V2 == [V1 EXCEPT ![e.to].received_points = AddPoints(@, e.from, -points_in_cycle)]
             V3 == IF Entry(V2[e.from].delegations, e.to).points <= 0
                   THEN LET W == [V2 EXCEPT ![e.from].delegations = DelKey(@, e.to)]
                        IN  [W EXCEPT ![e.to].received_points = DelKey(@, e.from)]
                   ELSE V2
         IN  [V3 EXCEPT ![e.from].available_points = @ + points_in_cycle]

\* the pass that deletes the delegation only when its points are below 0
reduce_delegation_keeping_zero(V, e, points_in_cycle, origin_voter) ==
    LET V1 == [V EXCEPT ![e.from].delegations = AddPoints(@, e.to, -points_in_cycle)]
        V2 == [V1 EXCEPT ![e.to].received_points = AddPoints(@, e.from, -points_in_cycle)]
        V3 == IF Entry(V2[e.from].delegations, e.to).points < 0
              THEN LET W == [V2 EXCEPT ![e.from].delegations = DelKey(@, e.to)]
                   IN  [W EXCEPT ![e.to].received_points = DelKey(@, e.from)]
              ELSE V2
    IN  IF e.from = origin_voter
        THEN [V3 EXCEPT ![e.from].available_points = @ + points_in_cycle]
        ELSE V3

\* the pass that reduces the delegator's end of the delegation and leaves
\* the received end as it was
reduce_delegation_one_end(V, e, points_in_cycle, origin_voter) ==
    LET V1 == [V EXCEPT ![e.from].delegations = AddPoints(@, e.to, -points_in_cycle)]
        V3 == IF Entry(V1[e.from].delegations, e.to).points <= 0
              THEN LET W == [V1 EXCEPT ![e.from].delegations = DelKey(@, e.to)]
                   IN  [W EXCEPT ![e.to].received_points = DelKey(@, e.from)]
              ELSE V1
    IN  IF e.from = origin_voter
        THEN [V3 EXCEPT ![e.from].available_points = @ + points_in_cycle]
        ELSE V3

\* one pass of the loop "for from_voter, to_voter, points in cycle_delegations"
reduce_delegation(V, e, points_in_cycle, origin_voter) ==
    LET V1 == [V EXCEPT ![e.from].delegations = AddPoints(@, e.to, -points_in_cycle)]
        V2 == [V1 EXCEPT ![e.to].received_points = AddPoints(@, e.from, -points_in_cycle)]
        V3 == IF Entry(V2[e.from].delegations, e.to).points <= 0
              THEN LET W == [V2 EXCEPT ![e.from].delegations = DelKey(@, e.to)]
                   IN  [W EXCEPT ![e.to].received_points = DelKey(@, e.from)]
              ELSE V2
    IN  IF e.from = origin_voter
        THEN [V3 EXCEPT ![e.from].available_points = @ + points_in_cycle]
        ELSE V3

RECURSIVE reduce_delegations(_, _, _, _, _)
reduce_delegations(V, cds, i, points_in_cycle, origin_voter) ==
    IF i > Len(cds) THEN V
    ELSE reduce_delegations(
             reduce_delegation(V, cds[i], points_in_cycle, origin_voter),
             cds, i + 1, points_in_cycle, origin_voter)

\* the resolution that gives up a cycle one of whose delegations is gone
clean_delegation_cycle_when_whole(V, cycle) ==
    IF cycle = <<>> THEN V
    ELSE IF cycle[1] \notin DOMAIN V THEN V
    ELSE LET cds == cycle_delegations(V, cycle)
         IN  IF Len(cds) < Len(cycle) THEN V
             ELSE reduce_delegations(V, cds, 1, min_points(cds), cycle[1])

clean_delegation_cycle(V, cycle) ==
    IF cycle = <<>> THEN V
    ELSE IF cycle[1] \notin DOMAIN V THEN V
    ELSE LET cds == cycle_delegations(V, cycle)
         IN  IF cds = <<>> THEN V
             ELSE reduce_delegations(V, cds, 1, min_points(cds), cycle[1])

\* the loop over the cycles leaving after the first cycle
clean_first_cycle(V, cycles, n) ==
    IF n = 0 THEN V ELSE clean_delegation_cycle(V, cycles[1])

\* for cycle in cycles: self.clean_delegation_cycle(cycle)
RECURSIVE clean_cycles(_, _, _)
clean_cycles(V, cycles, n) ==
    IF n = 0 THEN V
    ELSE clean_delegation_cycle(clean_cycles(V, cycles, n - 1), cycles[n])

----------------------------------------------------------------------------
(* DelegationSystem.delegate_points *)

\* the delegation entered with the flag passed written over the flag of an
\* entry that is there already
enter_delegation_flag_passed(V, from_voter, to_voter, points, subdelegable) ==
    LET d0 == V[from_voter].delegations
        d1 == IF HasKey(d0, to_voter)
              THEN [d0 EXCEPT ![IndexOf(d0, to_voter)].subdelegable = subdelegable]
              ELSE NewKey(d0, to_voter, subdelegable)
        V1 == [V EXCEPT ![from_voter].delegations = AddPoints(d1, to_voter, points),
                        ![from_voter].available_points = @ - points]
        r0 == V1[to_voter].received_points
        r1 == IF HasKey(r0, from_voter)
              THEN [r0 EXCEPT ![IndexOf(r0, from_voter)].subdelegable = subdelegable]
              ELSE NewKey(r0, from_voter, subdelegable)
    IN  [V1 EXCEPT ![to_voter].received_points = AddPoints(r1, from_voter, points)]

\* the ledger once the delegation is entered, before cycle detection
enter_delegation(V, from_voter, to_voter, points, subdelegable) ==
    LET d0 == V[from_voter].delegations
        d1 == IF HasKey(d0, to_voter) THEN d0 ELSE NewKey(d0, to_voter, subdelegable)
        V1 == [V EXCEPT ![from_voter].delegations = AddPoints(d1, to_voter, points),
                        ![from_voter].available_points = @ - points]
        r0 == V1[to_voter].received_points
        r1 == IF HasKey(r0, from_voter) THEN r0 ELSE NewKey(r0, from_voter, subdelegable)
    IN  [V1 EXCEPT ![to_voter].received_points = AddPoints(r1, from_voter, points)]

\* delegate_points testing the points after it entered the delegation
delegate_points_late_test(V, from_voter, to_voter, points, subdelegable) ==
    IF from_voter \notin DOMAIN V \/ to_voter \notin DOMAIN V
    THEN [ok |-> FALSE, voters |-> V, entered |-> V, cycles |-> <<>>]
    ELSE LET entered == enter_delegation(V, from_voter, to_voter, points, subdelegable)
             cycles  == detect_cycles(entered, from_voter)
         IN  IF points > get_delegatable_points(V[from_voter]) \/ points <= 0
             THEN [ok |-> FALSE, voters |-> entered, entered |-> entered,
                   cycles |-> <<>>]
             ELSE [ok |-> TRUE,
                   voters |-> clean_cycles(entered, cycles, Len(cycles)),
                   entered |-> entered,
                   cycles |-> cycles]

delegate_points(V, from_voter, to_voter, points, subdelegable) ==
    IF from_voter \notin DOMAIN V \/ to_voter \notin DOMAIN V
    THEN [ok |-> FALSE, voters |-> V, entered |-> V, cycles |-> <<>>]
    ELSE IF points > get_delegatable_points(V[from_voter]) \/ points <= 0
    THEN [ok |-> FALSE, voters |-> V, entered |-> V, cycles |-> <<>>]
    ELSE LET entered == enter_delegation(V, from_voter, to_voter, points, subdelegable)
             cycles  == detect_cycles(entered, from_voter)
         IN  [ok |-> TRUE,
              voters |-> clean_cycles(entered, cycles, Len(cycles)),
              entered |-> entered,
              cycles |-> cycles]

----------------------------------------------------------------------------
(* DelegationSystem.subdelegate_points *)

\* sum of the points of the received entries flagged subdelegable
subdelegable_received(voter) ==
    SumPoints(SelectSeq(voter.received_points, LAMBDA e : e.subdelegable))

Min2(a, b) == IF a <= b THEN a ELSE b

subdelegate_points(V, from_voter, to_voter, points) ==
    IF from_voter \notin DOMAIN V \/ to_voter \notin DOMAIN V
    THEN [ok |-> FALSE, voters |-> V, entered |-> V, cycles |-> <<>>]
    ELSE LET delegatable_points ==
                 Min2(subdelegable_received(V[from_voter]),
                      get_delegatable_points(V[from_voter]))
         IN  IF points > delegatable_points \/ points <= 0
             THEN [ok |-> FALSE, voters |-> V, entered |-> V, cycles |-> <<>>]
             ELSE delegate_points(V, from_voter, to_voter, points, FALSE)

----------------------------------------------------------------------------
(* DelegationSystem.revoke_delegation: the second definition of the class,  *)
(* the one Python binds.  It calls get_delegations_to, get_delegations_from *)
(* and _remove_delegation, which the class does not define; they are taken  *)
(* from the specification: the delegations into a voter, the delegations    *)
(* out of a voter, and the removal of one direct edge on both of its ends.  *)

get_delegations_to(V, user_id) ==
    IF user_id \in DOMAIN V THEN V[user_id].received_points ELSE <<>>

get_delegations_from(V, user_id) ==
    IF user_id \in DOMAIN V THEN V[user_id].delegations ELSE <<>>

remove_delegation(V, from_id, to_id) ==
    IF from_id \notin DOMAIN V \/ to_id \notin DOMAIN V
    THEN [ok |-> FALSE, voters |-> V]
    ELSE IF ~HasKey(V[from_id].delegations, to_id)
    THEN [ok |-> FALSE, voters |-> V]
    ELSE LET W == [V EXCEPT ![from_id].delegations = DelKey(@, to_id)]
         IN  [ok |-> TRUE,
              voters |-> [W EXCEPT ![to_id].received_points = DelKey(@, from_id)]]

RECURSIVE get_total_delegated_points(_, _, _), total_over(_, _, _, _)

\* returns the total and the visited set the recursion shares
get_total_delegated_points(V, user_id, visited) ==
    IF user_id \in visited
    THEN [total |-> 0, visited |-> visited]
    ELSE total_over(V, get_delegations_to(V, user_id), 1, visited \cup {user_id})

\* for delegation in delegations: total += points + get_total_delegated_points(from_id)
total_over(V, delegations, i, visited) ==
    IF i > Len(delegations) THEN [total |-> 0, visited |-> visited]
    ELSE LET up   == get_total_delegated_points(V, delegations[i].id, visited)
             rest == total_over(V, delegations, i + 1, up.visited)
         IN  [total |-> delegations[i].points + up.total + rest.total,
              visited |-> rest.visited]

RECURSIVE reset_subdelegations(_, _, _), reset_over(_, _, _, _, _)

\* returns the ledger and the visited set the recursion shares
reset_subdelegations(V, user_id, visited) ==
    IF user_id \in visited
    THEN [voters |-> V, visited |-> visited]
    ELSE reset_over(V, user_id, get_delegations_from(V, user_id), 1,
                    visited \cup {user_id})

\* for delegation in delegations: reset below it, then remove it
reset_over(V, user_id, delegations, i, visited) ==
    IF i > Len(delegations) THEN [voters |-> V, visited |-> visited]
    ELSE LET below == reset_subdelegations(V, delegations[i].id, visited)
             W     == remove_delegation(below.voters, user_id, delegations[i].id).voters
         IN  reset_over(W, user_id, delegations, i + 1, below.visited)

\* the revoke that stops at the direct delegation (the first definition of
\* revoke_delegation in the class, which the second one replaces)
revoke_direct_delegation(V, from_id, to_id) ==
    IF from_id \notin DOMAIN V \/ to_id \notin DOMAIN V
    THEN [ok |-> FALSE, points |-> 0, voters |-> V, raised |-> FALSE]
    ELSE IF ~HasKey(V[from_id].delegations, to_id)
    THEN [ok |-> FALSE, points |-> 0, voters |-> V, raised |-> FALSE]
    ELSE LET points == Entry(V[from_id].delegations, to_id).points
             W == [V EXCEPT ![from_id].available_points = @ + points]
         IN  [ok |-> TRUE, points |-> points,
              voters |-> remove_delegation(W, from_id, to_id).voters,
              raised |-> FALSE]

\* the revoke that returns the points before it looks for the delegation
revoke_credit_first(V, from_id, to_id) ==
    LET points_to_recover == get_total_delegated_points(V, to_id, {}).total
        removed == remove_delegation(V, from_id, to_id)
    IN  IF from_id \notin DOMAIN V
        THEN [ok |-> FALSE, points |-> 0, voters |-> V, raised |-> TRUE]
        ELSE LET W == [removed.voters EXCEPT ![from_id].available_points =
                                                 @ + points_to_recover]
             IN  IF ~removed.ok
                 THEN [ok |-> FALSE, points |-> 0, voters |-> W, raised |-> FALSE]
                 ELSE [ok |-> TRUE, points |-> points_to_recover,
                       voters |-> reset_subdelegations(W, to_id, {}).voters,
                       raised |-> FALSE]

revoke_delegation(V, from_id, to_id) ==
    LET points_to_recover == get_total_delegated_points(V, to_id, {}).total
        removed == remove_delegation(V, from_id, to_id)
    IN  IF ~removed.ok
        THEN [ok |-> FALSE, points |-> 0, voters |-> V, raised |-> FALSE]
        ELSE LET W == reset_subdelegations(removed.voters, to_id, {}).voters
             IN  IF from_id \notin DOMAIN W
                 THEN \* self.voters[from_id] raises KeyError
                      [ok |-> FALSE, points |-> 0, voters |-> W, raised |-> TRUE]
                 ELSE [ok |-> TRUE, points |-> points_to_recover,
                       voters |-> [W EXCEPT ![from_id].available_points =
                                                @ + points_to_recover],
                       raised |-> FALSE]

----------------------------------------------------------------------------
(* Proposals and their votes: src/voting.py                                *)
(*                                                                         *)
(* A Proposal is a record of the attributes the operations read or write.  *)
(* supporters, opponents, article_votes and article_requirements are       *)
(* dictionaries whose order no operation reads: they are functions.        *)
(* existing_articles and new_articles keep their order, which              *)
(* get_all_articles hands on: they are sequences of articles [id,          *)
(* current_version, is_new].  Time is counted in days.  creation_date,     *)
(* last_state_change and the per-article last_modified are written and     *)
(* never read, and are left out.                                           *)

\* ProposalState
DRAFT == "draft"

GATHERING == "gathering"

DEBATE == "debate"

VOTING == "voting"

APPROVED == "approved"

REJECTED == "rejected"

PUBLISHED == "published"

ABANDONED == "abandoned"

CLEANUP == "cleanup"

ProposalState ==
    {DRAFT, GATHERING, DEBATE, VOTING, APPROVED, REJECTED, PUBLISHED,
     ABANDONED, CLEANUP}

\* Python's None, or an attribute that was never assigned; and a value
None == {}

Some(x) == {x}

The(o) == CHOOSE x \in o : TRUE

\* Proposal.abandon_threshold, in days
abandon_threshold == 30

\* VotingSystem.cleanup_interval, in days
cleanup_interval == 1

\* Proposal.required_existing_articles
required_existing_articles == 1

\* base_required of Constitution.calculate_proposal_requirements
base_required == 100

\* sum(d.values())
RECURSIVE SumValues(_)
SumValues(d) ==
    IF DOMAIN d = {} THEN 0
    ELSE LET k == CHOOSE k \in DOMAIN d : TRUE
         IN  d[k] + SumValues([j \in DOMAIN d \ {k} |-> d[j]])

\* Proposal.__init__ on the day `today`.  min_participation is not assigned
\* by the constructor: the attribute does not exist until
\* calculate_requirements makes it.
Proposal(owner_id, title, today) ==
    [ owner_id             |-> owner_id,
      title                |-> title,
      state                |-> DRAFT,
      supporters           |-> <<>>,
      opponents            |-> <<>>,
      required_voters      |-> 0,
      min_participation    |-> None,
      governing_article    |-> None,
      deadline             |-> None,
      last_activity        |-> today,
      existing_articles    |-> <<>>,
      new_articles         |-> <<>>,
      article_votes        |-> <<>>,
      article_requirements |-> <<>> ]

\* str.strip of the texts the callers use
strip(text) == IF text = " " THEN "" ELSE text

\* articles[article_data.id] = article_data
PutArticle(articles, article_data) ==
    IF HasKey(articles, article_data.id)
    THEN [articles EXCEPT ![IndexOf(articles, article_data.id)] = article_data]
    ELSE Append(articles, article_data)

\* Proposal.add_article_modification
add_article_modification(P, article_id, changes, is_new) ==
    IF P.state # DEBATE
    THEN [ok |-> FALSE, proposal |-> P]
    ELSE LET article_data == [ id              |-> article_id,
                               current_version |-> changes.new_text,
                               is_new          |-> is_new ]
         IN  [ ok |-> TRUE,
               proposal |->
                   IF is_new
                   THEN [P EXCEPT !.new_articles = PutArticle(@, article_data)]
                   ELSE [P EXCEPT !.existing_articles =
                                      PutArticle(@, article_data)] ]

\* for art_id, changes in articles.items():
\*     proposal.add_article_modification(art_id, changes, is_new)
RECURSIVE add_articles(_, _, _, _)
add_articles(P, articles, is_new, i) ==
    IF i > Len(articles) THEN P
    ELSE add_articles(
             add_article_modification(P, articles[i].id, articles[i], is_new).proposal,
             articles, is_new, i + 1)

\* the requirement of one article:
\* self.article_requirements.get(art_id, {'required_voters': 0})
article_requirement(P, art_id) ==
    IF art_id \in DOMAIN P.article_requirements
    THEN P.article_requirements[art_id]
    ELSE [required_voters |-> 0]

\* Proposal.get_group_requirements: max() keeps the first of the largest
get_group_requirements(P, group) ==
    IF group = <<>> THEN None
    ELSE LET reqs == [i \in 1..Len(group) |-> article_requirement(P, group[i])]
             top == CHOOSE i \in 1..Len(reqs) :
                       /\ \A j \in 1..Len(reqs) :
                              reqs[j].required_voters <= reqs[i].required_voters
                       /\ \A j \in 1..(i - 1) :
                              reqs[j].required_voters < reqs[i].required_voters
         IN  Some(reqs[top])

\* Proposal.validate_group_vote
validate_group_vote(P, group, points) ==
    LET req == get_group_requirements(P, group)
    IN  IF req = None THEN FALSE
        ELSE points >= The(req).required_voters

\* Proposal.validate_requirements
validate_requirements(P) ==
    IF Len(P.existing_articles) < required_existing_articles THEN FALSE
    ELSE \A i \in 1..Len(P.new_articles) :
             strip(P.new_articles[i].current_version) # ""

\* Proposal.get_all_articles: {**existing_articles, **new_articles}
get_all_articles(P) ==
    [i \in 1..Len(P.existing_articles) |->
         IF HasKey(P.new_articles, P.existing_articles[i].id)
         THEN Entry(P.new_articles, P.existing_articles[i].id)
         ELSE P.existing_articles[i]]
    \o SelectSeq(P.new_articles, LAMBDA a : ~HasKey(P.existing_articles, a.id))

\* allows every transition out of a state that is not ABANDONED
any_state_transition(state, new_state) == state # ABANDONED

\* Proposal._is_valid_state_transition
is_valid_state_transition(state, new_state) ==
    \/ state = DRAFT /\ new_state \in {GATHERING, ABANDONED}
    \/ state = GATHERING /\ new_state \in {DEBATE, ABANDONED}
    \/ state = DEBATE /\ new_state \in {VOTING, ABANDONED}
    \/ state = VOTING /\ new_state \in {APPROVED, REJECTED, ABANDONED}
    \/ state = CLEANUP /\ new_state \in {ABANDONED}

\* Proposal.change_state
change_state(P, new_state) ==
    IF is_valid_state_transition(P.state, new_state)
    THEN [ok |-> TRUE, proposal |-> [P EXCEPT !.state = new_state]]
    ELSE [ok |-> FALSE, proposal |-> P]

\* the articles Data/constitution.json holds, each with the default weight
constitution_articles == {"1", "2"}

\* self.articles[aid].get('weight', 1)
weight(aid) == 1

\* Constitution.calculate_proposal_requirements:
\* int(100 * (existing_multiplier + 0.5 * new)) and int(0.75 * total)
calculate_proposal_requirements(article_ids) ==
    LET existing == SelectSeq(article_ids, LAMBDA a : a \in DOMAIN constitution)
        new      == SelectSeq(article_ids, LAMBDA a : a \notin DOMAIN constitution)
        weights  == [i \in 1..Len(existing) |-> [points |-> weight(existing[i])]]
        total_required ==
            (2 * base_required * SumPoints(weights) + base_required * Len(new)) \div 2
        governing ==
            IF existing = <<>> THEN None
            ELSE LET top == CHOOSE i \in 1..Len(existing) :
                                /\ \A j \in 1..Len(existing) :
                                       weight(existing[j]) <= weight(existing[i])
                                /\ \A j \in 1..(i - 1) :
                                       weight(existing[j]) < weight(existing[i])
                 IN  Some(existing[top])
    IN  [ required_voters   |-> total_required,
          min_participation |-> (3 * total_required) \div 4,
          governing_article |-> governing ]

\* Proposal.calculate_requirements
calculate_requirements(P, article_ids) ==
    LET requirements == calculate_proposal_requirements(article_ids)
    IN  [P EXCEPT !.required_voters = requirements.required_voters,
                  !.min_participation = Some(requirements.min_participation),
                  !.governing_article = requirements.governing_article]

\* Proposal.update_activity
update_activity(P, today) == [P EXCEPT !.last_activity = today]

\* is_abandoned that looks at the state alone
is_abandoned_at_any_age(P, today) ==
    P.state \notin {APPROVED, REJECTED, PUBLISHED, ABANDONED}

\* Proposal.is_abandoned
is_abandoned(P, today) ==
    IF P.state \in {APPROVED, REJECTED, PUBLISHED, ABANDONED} THEN FALSE
    ELSE today - P.last_activity > abandon_threshold

----------------------------------------------------------------------------
(* VotingSystem *)

\* f"prop_{n}"
prop(n) == "prop_" \o ToString(n)

\* VotingSystem._serialize_proposals, with the attributes modelled here
serialize_proposals(registry) ==
    [pid \in DOMAIN registry |->
        [ owner_id      |-> registry[pid].owner_id,
          title         |-> registry[pid].title,
          state         |-> registry[pid].state,
          supporters    |-> registry[pid].supporters,
          opponents     |-> registry[pid].opponents,
          last_activity |-> registry[pid].last_activity,
          deadline      |-> registry[pid].deadline ]]

\* VotingSystem._deserialize_proposals, which load_data calls: each
\* proposal is constructed anew and takes from the snapshot what
\* _serialize_proposals put there
deserialize_proposals(data) ==
    [pid \in DOMAIN data |->
        [Proposal(data[pid].owner_id, data[pid].title, data[pid].last_activity)
            EXCEPT !.state = data[pid].state,
                   !.supporters = data[pid].supporters,
                   !.opponents = data[pid].opponents,
                   !.deadline = data[pid].deadline]]

\* _save_data whose await of the worker goes through
save_data_awaiting_worker(registry) ==
    [raised |-> FALSE, data |-> serialize_proposals(registry)]

\* VotingSystem._save_data.  executor.submit hands the snapshot to the
\* worker and returns a concurrent.futures.Future, which is not awaitable:
\* the await raises TypeError, which _save_data logs and raises again.
save_data(registry) ==
    [raised |-> TRUE, data |-> serialize_proposals(registry)]

\* VotingSystem._validate_owner: the owner is a known voter
validate_owner(owner_id) == owner_id \in Ids

\* VotingSystem.create_proposal on the day `today`; existing_articles and
\* new_articles are sequences of [id, new_text]
create_proposal(registry, locks, owner_id, title, existing_articles, new_articles, today) ==
    IF owner_id = "" \/ title = "" \/ existing_articles = <<>>
    THEN \* raise ValueError
         [ok |-> FALSE, raised |-> TRUE, id |-> None,
          proposals |-> registry, proposal_locks |-> locks]
    ELSE IF ~validate_owner(owner_id)
    THEN [ok |-> FALSE, raised |-> FALSE, id |-> None,
          proposals |-> registry, proposal_locks |-> locks]
    ELSE LET pid == prop(Cardinality(DOMAIN registry) + 1)
             held == locks \cup {pid}
             made == add_articles(
                         add_articles(Proposal(owner_id, title, today),
                                      existing_articles, FALSE, 1),
                         new_articles, TRUE, 1)
         IN  IF ~validate_requirements(made)
             THEN [ok |-> FALSE, raised |-> FALSE, id |-> None,
                   proposals |-> registry, proposal_locks |-> held]
             ELSE LET all == get_all_articles(made)
                      article_ids == [i \in 1..Len(all) |-> all[i].id]
                      proposal == calculate_requirements(made, article_ids)
                      registered ==
                          [p \in DOMAIN registry \cup {pid} |->
                              IF p = pid THEN proposal ELSE registry[p]]
                  IN  IF save_data(registered).raised
                      THEN \* except Exception: return None, False
                           [ok |-> FALSE, raised |-> FALSE, id |-> None,
                            proposals |-> registered, proposal_locks |-> held]
                      ELSE [ok |-> TRUE, raised |-> FALSE, id |-> Some(pid),
                            proposals |-> registered, proposal_locks |-> held]

\* VotingSystem.add_modification; the coroutine check_abandoned_proposals()
\* it makes on success is never awaited, so the check does not run
add_modification(registry, proposal_id, article_id, changes, voter_id, today) ==
    IF proposal_id \notin DOMAIN registry
    THEN [ok |-> FALSE, proposals |-> registry]
    ELSE LET P == registry[proposal_id]
         IN  IF P.state = ABANDONED
             THEN [ok |-> FALSE, proposals |-> registry]
             ELSE IF voter_id \notin DOMAIN P.supporters /\ voter_id # P.owner_id
             THEN [ok |-> FALSE, proposals |-> registry]
             ELSE LET r == add_article_modification(P, article_id, changes, FALSE)
                  IN  IF r.ok
                      THEN [ok |-> TRUE,
                            proposals |->
                                [registry EXCEPT ![proposal_id] =
                                    update_activity(r.proposal, today)]]
                      ELSE [ok |-> FALSE, proposals |-> registry]

\* every article of the group gets points // n
art_points_without_remainder(points, n, i) == points \div n

\* the points of the article at place i of a group of n, the first at 0:
\* points // n + (1 if i < points % n else 0)
art_points(points, n, i) ==
    (points \div n) + (IF i < points % n THEN 1 ELSE 0)

\* tally[voter_id] = tally.get(voter_id, 0) + amount
cast_vote_adding(tally, voter_id, amount) ==
    [w \in DOMAIN tally \cup {voter_id} |->
        IF w = voter_id
        THEN (IF voter_id \in DOMAIN tally THEN tally[voter_id] ELSE 0) + amount
        ELSE tally[w]]

\* tally[voter_id] = amount
cast_vote(tally, voter_id, amount) ==
    [w \in DOMAIN tally \cup {voter_id} |->
        IF w = voter_id THEN amount ELSE tally[w]]

\* the loop that starts from tallies holding nothing
record_votes_anew(article_votes, voter_id, article_group, points, support, i) ==
    [a \in {article_group[j] : j \in 1..Len(article_group)} |->
        [w \in {voter_id} |-> IF support THEN points ELSE 0 - points]]

\* for i, article_id in enumerate(article_group): the body of the loop from
\* place i on, the first place being 0
RECURSIVE record_votes(_, _, _, _, _, _)
record_votes(article_votes, voter_id, article_group, points, support, i) ==
    IF i >= Len(article_group) THEN article_votes
    ELSE LET article_id == article_group[i + 1]
             amount == art_points(points, Len(article_group), i)
             tally == IF article_id \in DOMAIN article_votes
                      THEN article_votes[article_id]
                      ELSE <<>>
             voted == cast_vote(tally, voter_id,
                                IF support THEN amount ELSE 0 - amount)
         IN  record_votes(
                 [a \in DOMAIN article_votes \cup {article_id} |->
                     IF a = article_id THEN voted ELSE article_votes[a]],
                 voter_id, article_group, points, support, i + 1)

\* VotingSystem.commit_points on the day `today`; article_group is the
\* group in the order the loop meets its articles.  recorded tells that the
\* loop ran, ok is what the caller gets.
commit_points(registry, locks, proposal_id, voter_id, article_group, points, support, today) ==
    IF proposal_id \notin DOMAIN registry
    THEN [ok |-> FALSE, raised |-> FALSE, recorded |-> FALSE, proposals |-> registry]
    ELSE IF proposal_id \notin locks
    THEN \* self.proposal_locks[proposal_id] raises KeyError
         [ok |-> FALSE, raised |-> TRUE, recorded |-> FALSE, proposals |-> registry]
    ELSE LET P == registry[proposal_id]
         IN  IF ~validate_group_vote(P, article_group, points)
             THEN [ok |-> FALSE, raised |-> FALSE, recorded |-> FALSE,
                   proposals |-> registry]
             ELSE LET voted == [P EXCEPT !.article_votes =
                                   record_votes(@, voter_id, article_group,
                                                points, support, 0)]
                      after == [registry EXCEPT ![proposal_id] =
                                   update_activity(voted, today)]
                  IN  \* an exception of the save is caught: return False
                      [ok |-> ~save_data(after).raised, raised |-> FALSE,
                       recorded |-> TRUE, proposals |-> after]

\* VotingSystem.can_close_proposal, the second definition of that name in
\* the class, which is the one Python binds
can_close_proposal(registry, locks, proposal_id, today) ==
    IF proposal_id \notin DOMAIN registry
    THEN [ok |-> FALSE, raised |-> FALSE]
    ELSE IF proposal_id \notin locks
    THEN [ok |-> FALSE, raised |-> TRUE]
    ELSE LET P == registry[proposal_id]
             total_support == SumValues(P.supporters)
             total_votes == total_support + SumValues(P.opponents)
         IN  IF P.state # VOTING
             THEN [ok |-> FALSE, raised |-> FALSE]
             ELSE IF P.deadline = None
             THEN \* datetime.now() < None raises TypeError
                  [ok |-> FALSE, raised |-> TRUE]
             ELSE IF today < The(P.deadline)
             THEN [ok |-> FALSE, raised |-> FALSE]
             ELSE IF ~(total_support >= P.required_voters)
             THEN [ok |-> FALSE, raised |-> FALSE]
             ELSE IF P.min_participation = None
             THEN \* proposal.min_participation raises AttributeError
                  [ok |-> FALSE, raised |-> TRUE]
             ELSE [ok |-> total_votes >= The(P.min_participation),
                   raised |-> FALSE]

\* the decision taken on the last_activity the snapshot was loaded with
should_abandon_proposal_as_loaded(P, today) ==
    is_abandoned([P EXCEPT !.last_activity = 0], today)

\* VotingSystem._should_abandon_proposal
should_abandon_proposal(P, today) == is_abandoned(P, today)

\* VotingSystem._release_committed_points and _clean_proposal_data: the
\* tallies of the proposal are discarded
clean_proposal_data(P) == [P EXCEPT !.article_votes = <<>>]

\* VotingSystem._abandon_proposal: the proposal it leaves, and the states
\* the proposal went through, the one it had at the start first
abandon_proposal(P) ==
    LET cleanup == change_state(P, CLEANUP).proposal
        cleaned == clean_proposal_data(cleanup)
        abandoned == change_state(cleaned, ABANDONED).proposal
    IN  [proposal |-> abandoned,
         states |-> <<P.state, cleanup.state, abandoned.state>>]

\* VotingSystem.check_abandoned_proposals on the day `today`; the exception
\* of the save at its end is caught and logged
check_abandoned_proposals(registry, cleaned_last, today) ==
    IF today - cleaned_last < cleanup_interval
    THEN [ran |-> FALSE, proposals |-> registry, last_cleanup |-> cleaned_last]
    ELSE [ran |-> TRUE,
          proposals |->
              [pid \in DOMAIN registry |->
                  IF should_abandon_proposal(registry[pid], today)
                  THEN abandon_proposal(registry[pid]).proposal
                  ELSE registry[pid]],
          last_cleanup |-> today]

\* what a call of the voting system hands back: its name, its result,
\* whether it raised, and whether it wrote to the proposal
Answer(op, ok, raised, recorded) ==
    [op |-> op, ok |-> ok, raised |-> raised, recorded |-> recorded]

\* VotingSystem.__init__ on day 0 with no snapshot to load
NoProposals ==
    /\ proposals = <<>>
    /\ proposal_locks = {}
    /\ last_cleanup = 0
    /\ now = 0
    /\ returned = Answer("none", TRUE, FALSE, FALSE)
    /\ mutated = <<>>
    /\ calls = 0

----------------------------------------------------------------------------
(* The requirements of the articles: src/utility.py, src/constitution.py   *)
(*                                                                         *)
(* A requirement is a Python number: an int, or the float -inf that        *)
(* calculate_required_voters and get_article_requirements return.  It is   *)
(* the record [neg_inf, value], where value counts when neg_inf is false.  *)
(* An article of the constitution is the record of its history, the        *)
(* voters_participated of each past vote, oldest first, and of its         *)
(* cached_requirements.  last_calculation is left out: the one comparison  *)
(* that reads it raises whatever its value.                                *)

\* an int
finite(n) == [neg_inf |-> FALSE, value |-> n]

\* float('-inf')
float_neg_inf == [neg_inf |-> TRUE, value |-> 0]

\* points >= requirement, as Python compares an int with an int or a float
at_least(points, requirement) ==
    requirement.neg_inf \/ points >= requirement.value

\* math.log(n) in ten-thousandths, for the numbers of voters the callers use
log_scaled(n) ==
    CASE n = 1 -> 0
      [] n = 2 -> 6931
      [] n = 100 -> 46052
      [] n = 1000 -> 69078

\* calculate_required_voters: int(previous_voters * (math.log(previous_voters) / 100))
calculate_required_voters(previous_voters) ==
    IF previous_voters = 0
    THEN [raised |-> FALSE, value |-> float_neg_inf]
    ELSE [raised |-> FALSE,
          value |-> finite((previous_voters * log_scaled(previous_voters))
                               \div 1000000)]

\* calculate_minimum_participation:
\* int(previous_voters * (1 - math.log(previous_voters) / 100));
\* math.log(0) raises ValueError
calculate_minimum_participation(previous_voters) ==
    IF previous_voters = 0
    THEN [raised |-> TRUE, value |-> finite(0)]
    ELSE [raised |-> FALSE,
          value |-> finite((previous_voters
                                * (1000000 - log_scaled(previous_voters)))
                               \div 1000000)]

\* an article that was never voted, as the constitution file holds it
NewArticle == [history |-> <<>>, cached_requirements |-> None]

\* Constitution.get_article_requirements.  Constitution has no attribute
\* cache_duration: for an article with cached requirements the comparison
\* of the age of the cache raises AttributeError.
get_article_requirements(A, article_id) ==
    IF article_id = "0"
    THEN [raised |-> FALSE,
          requirements |-> Some([required_voters   |-> float_neg_inf,
                                 min_participation |-> finite(0),
                                 previous_voters   |-> 0])]
    ELSE IF article_id \notin DOMAIN A
    THEN [raised |-> FALSE, requirements |-> None]
    ELSE IF A[article_id].cached_requirements = None
    THEN [raised |-> FALSE, requirements |-> None]
    ELSE [raised |-> TRUE, requirements |-> None]

\* Constitution._recalculate_requirements.  The save_data at its end reads
\* self.cache_duration and raises AttributeError once the cache is written.
recalculate_requirements(A, article_id) ==
    IF article_id \notin DOMAIN A
    THEN [raised |-> FALSE, articles |-> A]
    ELSE LET history == A[article_id].history
             previous_voters ==
                 IF history = <<>> THEN 0 ELSE history[Len(history)]
             required == calculate_required_voters(previous_voters)
             minimum == calculate_minimum_participation(previous_voters)
         IN  IF required.raised \/ minimum.raised
             THEN [raised |-> TRUE, articles |-> A]
             ELSE [raised |-> TRUE,
                   articles |->
                       [A EXCEPT ![article_id].cached_requirements =
                           Some([required_voters   |-> required.value,
                                 min_participation |-> minimum.value,
                                 previous_voters   |-> previous_voters])]]

\* Constitution.update_article_history with vote_result['total_voters']
update_article_history(A, article_id, total_voters) ==
    IF article_id \notin DOMAIN A
    THEN [raised |-> FALSE, articles |-> A]
    ELSE recalculate_requirements(
             [A EXCEPT ![article_id].history = Append(@, total_voters)],
             article_id)

\* Constitution.__init__ and load_constitution: the articles of the file,
\* none of them voted yet
NoHistory == constitution = [a \in constitution_articles |-> NewArticle]

\* Constitution.__init__ before load_constitution has read the file, and
\* after it when the file cannot be read: no articles
NoArticles == constitution = <<>>

----------------------------------------------------------------------------
(* The debate of the modifications: src/debate_system.py                   *)
(*                                                                         *)
(* DebateSystem.modifications maps a proposal id to the dictionary of its  *)
(* modifications, a function from the modification id to the record of an  *)
(* ArticleModification; DebateSystem.proposal_articles maps a proposal id  *)
(* to the set of its article ids.  DebateSystem.locks has a lock for every *)
(* key of the two.  changes, comments and created_at are written and never *)
(* read by the operations below, and are left out.  DebateState.VOTING has *)
(* the value of ProposalState.VOTING.                                      *)

\* DebateState
DISCUSSION == "discussion"

REVIEWING == "reviewing"

DebateState == {DISCUSSION, VOTING, REVIEWING}

\* ArticleModification.required_points
required_points == 100

\* the default duration of start_modification_vote, timedelta(hours=24), in days
voting_duration == 1

\* f"mod_{n}"
mod(n) == "mod_" \o ToString(n)

\* ArticleModification.__init__
ArticleModification(article_id, author_id) ==
    [ article_id      |-> article_id,
      author_id       |-> author_id,
      votes           |-> <<>>,
      state           |-> DISCUSSION,
      voting_deadline |-> None,
      required_points |-> required_points ]

\* ArticleModification.add_vote
add_vote(M, voter_id, points) ==
    IF M.state # VOTING
    THEN [ok |-> FALSE, modification |-> M]
    ELSE [ok |-> TRUE,
          modification |->
              [M EXCEPT !.votes =
                  [w \in DOMAIN M.votes \cup {voter_id} |->
                      IF w = voter_id THEN points ELSE M.votes[w]]]]

\* calculate_result that asks for more than the required points
calculate_result_above(M) ==
    [ passed       |-> SumValues(M.votes) > M.required_points,
      total_points |-> SumValues(M.votes),
      total_voters |-> Cardinality(DOMAIN M.votes) ]

\* ArticleModification.calculate_result
calculate_result(M) ==
    [ passed       |-> SumValues(M.votes) >= M.required_points,
      total_points |-> SumValues(M.votes),
      total_voters |-> Cardinality(DOMAIN M.votes) ]

\* DebateSystem.initialize_debate
initialize_debate(mods, arts, proposal_id, article_ids) ==
    IF proposal_id \in DOMAIN mods
    THEN [ok |-> FALSE, modifications |-> mods, proposal_articles |-> arts]
    ELSE [ok |-> TRUE,
          modifications |->
              [p \in DOMAIN mods \cup {proposal_id} |->
                  IF p = proposal_id THEN <<>> ELSE mods[p]],
          proposal_articles |->
              [p \in DOMAIN arts \cup {proposal_id} |->
                  IF p = proposal_id THEN article_ids ELSE arts[p]]]

\* DebateSystem._validate_article_access
validate_article_access(arts, proposal_id, article_id) ==
    /\ proposal_id \in DOMAIN arts
    /\ article_id \in arts[proposal_id]

\* DebateSystem._validate_modification
validate_modification(mods, proposal_id, mod_id) ==
    /\ proposal_id \in DOMAIN mods
    /\ mod_id \in DOMAIN mods[proposal_id]

\* propose_modification that gives every modification the first id
propose_modification_first_id(mods, arts, proposal_id, article_id, author_id) ==
    IF ~validate_article_access(arts, proposal_id, article_id)
    THEN [id |-> None, modifications |-> mods]
    ELSE [id |-> Some(mod(1)),
          modifications |->
              [mods EXCEPT ![proposal_id] =
                  [m \in DOMAIN @ \cup {mod(1)} |->
                      IF m = mod(1)
                      THEN ArticleModification(article_id, author_id)
                      ELSE @[m]]]]

\* DebateSystem.propose_modification.  Between the test of the article and
\* the return the coroutine stops only for the lock of the proposal, which
\* no coroutine holds while it is stopped: the call runs as one step.
propose_modification(mods, arts, proposal_id, article_id, author_id) ==
    IF ~validate_article_access(arts, proposal_id, article_id)
    THEN [id |-> None, modifications |-> mods]
    ELSE LET mod_id == mod(Cardinality(DOMAIN mods[proposal_id]) + 1)
         IN  [id |-> Some(mod_id),
              modifications |->
                  [mods EXCEPT ![proposal_id] =
                      [m \in DOMAIN @ \cup {mod_id} |->
                          IF m = mod_id
                          THEN ArticleModification(article_id, author_id)
                          ELSE @[m]]]]

\* DebateSystem.start_modification_vote on the day `today`
start_modification_vote(mods, proposal_id, mod_id, duration, today) ==
    IF ~validate_modification(mods, proposal_id, mod_id)
    THEN [ok |-> FALSE, modifications |-> mods]
    ELSE [ok |-> TRUE,
          modifications |->
              [mods EXCEPT ![proposal_id][mod_id] =
                  [@ EXCEPT !.state = VOTING,
                            !.voting_deadline = Some(today + duration)]]]

\* vote_modification that does not look at the deadline
vote_modification_any_day(mods, proposal_id, mod_id, voter_id, points, today) ==
    IF ~validate_modification(mods, proposal_id, mod_id)
    THEN [ok |-> FALSE, modifications |-> mods]
    ELSE LET r == add_vote(mods[proposal_id][mod_id], voter_id, points)
         IN  [ok |-> r.ok,
              modifications |->
                  [mods EXCEPT ![proposal_id][mod_id] = r.modification]]

\* DebateSystem.vote_modification on the day `today`
vote_modification(mods, proposal_id, mod_id, voter_id, points, today) ==
    IF ~validate_modification(mods, proposal_id, mod_id)
    THEN [ok |-> FALSE, modifications |-> mods]
    ELSE LET modification == mods[proposal_id][mod_id]
         IN  IF modification.state # VOTING
             THEN [ok |-> FALSE, modifications |-> mods]
             ELSE IF today > The(modification.voting_deadline)
             THEN [ok |-> FALSE, modifications |-> mods]
             ELSE LET r == add_vote(modification, voter_id, points)
                  IN  [ok |-> r.ok,
                       modifications |->
                           [mods EXCEPT ![proposal_id][mod_id] = r.modification]]

\* DebateSystem.get_modification_result
get_modification_result(mods, proposal_id, mod_id) ==
    IF ~validate_modification(mods, proposal_id, mod_id)
    THEN None
    ELSE Some(calculate_result(mods[proposal_id][mod_id]))

\* DebateSystem.__init__
NoDebates ==
    /\ modifications = <<>>
    /\ proposal_articles = <<>>

----------------------------------------------------------------------------
(* The event loop and the executor: asyncio and src/voting.py              *)
(*                                                                         *)
(* A call of a coroutine is a task on the one event loop of the program.   *)
(* The loop runs one task at a time, and a task keeps the loop until it    *)
(* stops at an await that cannot go on: a lock another task holds, or a    *)
(* result that is not there yet.  The positions of a task are the awaits   *)
(* and tests of its source, and `tasks` maps each task to the record of    *)
(* its call and of its position pc.  The writes of the snapshots run on    *)
(* the threads of VotingSystem.executor, beside the loop.                  *)

\* max_workers of VotingSystem.executor
max_workers == 3

\* VotingSystem._write_data_to_file: the file holds the snapshot
write_data_to_file(data) == Some(data)

\* a call commit_points(proposal_id, voter_id, article_group, points,
\* support) that has not started
CommitTask(proposal_id, voter_id, article_group, points, support) ==
    [ op            |-> "commit_points",
      proposal_id   |-> proposal_id,
      voter_id      |-> voter_id,
      article_group |-> article_group,
      points        |-> points,
      support       |-> support,
      new_state     |-> DRAFT,
      pc            |-> "pending",
      ok            |-> FALSE,
      recorded      |-> FALSE ]

\* a call change_state(new_state) on the proposal proposal_id that has not
\* started
StateTask(proposal_id, new_state) ==
    [ op            |-> "change_state",
      proposal_id   |-> proposal_id,
      voter_id      |-> "",
      article_group |-> <<>>,
      points        |-> 0,
      support       |-> FALSE,
      new_state     |-> new_state,
      pc            |-> "pending",
      ok            |-> FALSE,
      recorded      |-> FALSE ]

\* a call check_abandoned_proposals() that has not started; proposal_id is
\* the proposal the loop over self.proposals is at
ReaperTask ==
    [ op            |-> "check_abandoned_proposals",
      proposal_id   |-> prop(1),
      voter_id      |-> "",
      article_group |-> <<>>,
      points        |-> 0,
      support       |-> FALSE,
      new_state     |-> ABANDONED,
      pc            |-> "pending",
      ok            |-> FALSE,
      recorded      |-> FALSE ]

\* the task has the loop: it is between two of its awaits
Running(t) ==
    tasks[t].pc \in {"locked", "checked", "written", "state_locked",
                     "deciding", "abandoning", "swept"}

\* the loop is free for the task t
LoopFree(t) == \A u \in DOMAIN tasks \ {t} : ~Running(u)

\* self.proposal_locks[proposal_id].locked()
LockHeld(proposal_id) ==
    \E u \in DOMAIN tasks :
        /\ tasks[u].proposal_id = proposal_id
        /\ \/ /\ tasks[u].op = "commit_points"
              /\ tasks[u].pc \in {"locked", "checked", "written", "saving"}
           \/ /\ tasks[u].op = "check_abandoned_proposals"
              /\ tasks[u].pc = "abandoning"

\* proposal.state_lock.locked()
StateLockHeld(proposal_id) ==
    \E u \in DOMAIN tasks :
        /\ tasks[u].op = "change_state"
        /\ tasks[u].proposal_id = proposal_id
        /\ tasks[u].pc = "state_locked"

\* no coroutine was called and no write was handed to the executor
NoTasks ==
    /\ tasks = <<>>
    /\ executor = <<>>

----------------------------------------------------------------------------
(* The system *)

\* what a call hands back: its name, its success flag, the points a revoke
\* recovered and the number of cycles a delegation reported
Returned(op, ok, points, cycles) ==
    [op |-> op, ok |-> ok, points_recovered |-> points, cycles |-> cycles]

NoneSubdelegated == [v \in Ids |-> 0]

\* DelegationSystem.__init__: load_data restores the registry a previous run
\* saved; the states taken here are the registries add_voter alone produces,
\* the empty one included
Init ==
    /\ \E known \in SUBSET Ids : voters = [v \in known |-> NewVoter]
    /\ last = Returned("none", TRUE, 0, 0)
    /\ subdelegated = NoneSubdelegated
    /\ nops = 0
    /\ NoProposals
    /\ NoArticles
    /\ NoDebates
    /\ NoTasks
    /\ data_file = None

AddVoter(max) ==
    \E id \in Ids :
        /\ nops < max
        /\ LET r == add_voter(voters, id)
           IN  /\ voters' = r.voters
               /\ last' = Returned("add_voter", r.ok, 0, 0)
        /\ nops' = nops + 1
        /\ UNCHANGED <<votingVars, constitutionVars, debateVars, loopVars>>
        /\ UNCHANGED subdelegated

Delegate(PS, max) ==
    \E f \in Ids, t \in Ids, p \in PS, s \in BOOLEAN :
        /\ nops < max
        /\ LET r == delegate_points(voters, f, t, p, s)
           IN  /\ voters' = r.voters
               /\ last' = Returned("delegate", r.ok, 0, Len(r.cycles))
               /\ subdelegated' = IF r.cycles = <<>> THEN subdelegated
                                  ELSE NoneSubdelegated
        /\ nops' = nops + 1
        /\ UNCHANGED <<votingVars, constitutionVars, debateVars, loopVars>>

Subdelegate(PS, max) ==
    \E f \in Ids, t \in Ids, p \in PS :
        /\ nops < max
        /\ LET r == subdelegate_points(voters, f, t, p)
           IN  /\ voters' = r.voters
               /\ last' = Returned("subdelegate", r.ok, 0, Len(r.cycles))
               /\ subdelegated' =
                      IF ~r.ok THEN subdelegated
                      ELSE IF r.cycles = <<>>
                           THEN [subdelegated EXCEPT ![f] = @ + p]
                           ELSE NoneSubdelegated
        /\ nops' = nops + 1
        /\ UNCHANGED <<votingVars, constitutionVars, debateVars, loopVars>>

Revoke(max) ==
    \E f \in Ids, t \in Ids :
        /\ nops < max
        /\ LET r == revoke_delegation(voters, f, t)
           IN  /\ voters' = r.voters
               /\ last' = Returned("revoke", r.ok, r.points, 0)
               /\ subdelegated' = IF r.ok THEN NoneSubdelegated ELSE subdelegated
        /\ nops' = nops + 1
        /\ UNCHANGED <<votingVars, constitutionVars, debateVars, loopVars>>

\* every operation of the ledger
Next ==
    \/ AddVoter(MaxOps)
    \/ Delegate(Points, MaxOps)
    \/ Subdelegate(Points, MaxOps)
    \/ Revoke(MaxOps)

Spec == Init /\ [][Next]_vars

\* the operations that add delegations, and with them the cycles
NextCycle ==
    \/ AddVoter(MaxCycleOps)
    \/ Delegate(CyclePoints, MaxCycleOps)
    \/ Subdelegate(CyclePoints, MaxCycleOps)

SpecCycle == Init /\ [][NextCycle]_vars

\* the points of the delegations of a file Data/delegations.json
LoadedPoints == {400}

\* the delegations a file holds: for each pair of voters, none or one
LoadedDelegations ==
    [ {e \in Ids \X Ids : e[1] # e[2]} -> {0} \cup LoadedPoints ]

\* the entries of a dictionary of the file, in the order of the voters
loaded_entries(points_of) ==
    LET held == SelectSeq(<<"A", "B", "C">>, LAMBDA v : points_of[v] > 0)
    IN  [i \in 1..Len(held) |->
            [id |-> held[i], points |-> points_of[held[i]], subdelegable |-> FALSE]]

\* DelegationSystem.load_data: each voter takes its delegations, its
\* received_points and its available_points from the file
load_data(file) ==
    [v \in Ids |->
        LET given    == [w \in Ids |-> IF w = v THEN 0 ELSE file[<<v, w>>]]
            received == [w \in Ids |-> IF w = v THEN 0 ELSE file[<<w, v>>]]
        IN  [ available_points |->
                  base_points - RESERVED_POINTS - given["A"] - given["B"] - given["C"],
              delegations      |-> loaded_entries(given),
              received_points  |-> loaded_entries(received) ]]

\* number of calls in one behaviour of SpecLoaded
MaxLoadedOps == 1

\* DelegationSystem.__init__ with a file to load: the ledger is whatever
\* the file holds, delegations that form cycles included
InitLoaded ==
    /\ \E file \in LoadedDelegations : voters = load_data(file)
    /\ last = Returned("none", TRUE, 0, 0)
    /\ subdelegated = NoneSubdelegated
    /\ nops = 0
    /\ NoProposals
    /\ NoArticles
    /\ NoDebates
    /\ NoTasks
    /\ data_file = None

\* the calls of delegate_points on the ledger loaded
NextLoaded == Delegate(CyclePoints, MaxLoadedOps)

SpecLoaded == InitLoaded /\ [][NextLoaded]_vars

----------------------------------------------------------------------------
(* The voting system *)

\* the proposal ids the callers use; no proposal has the last one
PropIds == {prop(1), prop(2), prop(3)}

\* the owners create_proposal is called with: none, a known voter, a stranger
Owners == {"", "A", "Z"}

Titles == {"", "t"}

\* the existing_articles and new_articles create_proposal is called with
ExistingArticles == {<<>>, <<[id |-> "1", new_text |-> "t"]>>}

NewArticles ==
    {<<>>, <<[id |-> "3", new_text |-> " "]>>, <<[id |-> "3", new_text |-> "t"]>>}

\* the articles add_modification is called with
Articles == {"1", "2"}

\* the voters that commit points, the article groups they commit to, in the
\* order the loop of commit_points meets the articles, and the values of
\* the points argument: Voters, Groups and VotePoints where the commits are
\* looked at alone, OneVoter, OneGroup and OnePoint among the other calls
Voters == {"A", "B"}

Groups == {<<>>, <<"1">>, <<"1", "2">>, <<"2", "1">>}

VotePoints == {-1, 1, 5}

OneVoter == {"B"}

OneGroup == {<<"1">>}

OnePoint == {1}

\* the days the clock moves on by between two calls
Elapse == {30, 31}

\* number of calls and clock steps in one behaviour of SpecVoting
MaxVotingOps == 3

\* number of calls in one behaviour of SpecCommit
MaxCommitOps == 2

\* the proposals of a snapshot _serialize_proposals wrote on day 0: owner A,
\* supporter B, opponent C, any state, and in VOTING a deadline or none
SnapshotEntries ==
    { e \in [ owner_id      : {"A"},
              title         : {"t"},
              state         : ProposalState,
              supporters    : {[v \in {"B"} |-> 1000]},
              opponents     : {[v \in {"C"} |-> 200]},
              last_activity : {0},
              deadline      : {None, Some(1)} ] :
          e.deadline = None \/ e.state = VOTING }

\* a snapshot of one proposal
OneProposal == [{prop(1)} -> SnapshotEntries]

\* the snapshots load_data finds: no proposal, one, or two with the first
\* in DEBATE and the second in VOTING with its deadline
Snapshots ==
    {<<>>} \cup OneProposal \cup
    { data \in [{prop(1), prop(2)} -> SnapshotEntries] :
        /\ data[prop(1)].state = DEBATE
        /\ data[prop(2)].state = VOTING /\ data[prop(2)].deadline # None }

\* DelegationSystem.__init__ with no voters to load
NoVoters ==
    /\ voters = <<>>
    /\ last = Returned("none", TRUE, 0, 0)
    /\ subdelegated = NoneSubdelegated
    /\ nops = 0

\* VotingSystem.__init__ and load_data on day 0: the registry is the one of
\* the snapshot, and every proposal of it has its lock
Loaded(data) ==
    /\ NoVoters
    /\ proposals = deserialize_proposals(data)
    /\ proposal_locks = DOMAIN data
    /\ mutated = [pid \in DOMAIN data |-> None]
    /\ last_cleanup = 0
    /\ now = 0
    /\ returned = Answer("none", TRUE, FALSE, FALSE)
    /\ calls = 0

\* the other systems as they are constructed, no coroutine called, and the
\* file as load_data found it
Elsewhere(data) ==
    /\ NoHistory
    /\ NoDebates
    /\ NoTasks
    /\ data_file = Some(data)

InitVoting == \E data \in Snapshots : Loaded(data) /\ Elsewhere(data)

InitCommit == \E data \in OneProposal : Loaded(data) /\ Elsewhere(data)

\* The calls of SpecVoting and SpecCommit follow one another, each made
\* when the worker thread has finished the write of the call before: a call
\* that reaches _save_data leaves the snapshot it took in Data/proposals.json.
\* SpecTasks has the calls and the writes that overlap.
CreateProposal(max) ==
    \E owner_id \in Owners, title \in Titles,
       existing_articles \in ExistingArticles, new_articles \in NewArticles :
        /\ calls < max
        /\ LET r == create_proposal(proposals, proposal_locks, owner_id, title,
                                    existing_articles, new_articles, now)
           IN  /\ proposals' = r.proposals
               /\ proposal_locks' = r.proposal_locks
               /\ mutated' = [pid \in DOMAIN r.proposals |->
                                 IF pid \in DOMAIN mutated THEN mutated[pid]
                                 ELSE None]
               /\ returned' = Answer("create_proposal", r.ok, r.raised, FALSE)
               /\ data_file' = IF r.proposals # proposals
                                THEN write_data_to_file(save_data(r.proposals).data)
                                ELSE data_file
        /\ calls' = calls + 1
        /\ UNCHANGED <<last_cleanup, now, ledgerVars, constitutionVars, debateVars,
                       tasks, executor>>

\* proposal.change_state(new_state) on a proposal of the registry
ChangeState(max) ==
    \E proposal_id \in DOMAIN proposals, new_state \in ProposalState :
        /\ calls < max
        /\ LET r == change_state(proposals[proposal_id], new_state)
           IN  /\ proposals' = [proposals EXCEPT ![proposal_id] = r.proposal]
               /\ returned' = Answer("change_state", r.ok, FALSE, FALSE)
        /\ calls' = calls + 1
        /\ UNCHANGED <<proposal_locks, last_cleanup, now, mutated, ledgerVars,
                       constitutionVars, debateVars, loopVars>>

AddModification(max) ==
    \E proposal_id \in PropIds, article_id \in Articles, voter_id \in Ids :
        /\ calls < max
        /\ LET r == add_modification(proposals, proposal_id, article_id,
                                     [new_text |-> "t"], voter_id, now)
           IN  /\ proposals' = r.proposals
               /\ mutated' = IF r.ok
                             THEN [mutated EXCEPT ![proposal_id] = Some(now)]
                             ELSE mutated
               /\ returned' = Answer("add_modification", r.ok, FALSE, r.ok)
        /\ calls' = calls + 1
        /\ UNCHANGED <<proposal_locks, last_cleanup, now, ledgerVars,
                       constitutionVars, debateVars, loopVars>>

CommitPoints(VS, GS, PS, max) ==
    \E proposal_id \in PropIds, voter_id \in VS, article_group \in GS,
       points \in PS, support \in BOOLEAN :
        /\ calls < max
        /\ LET r == commit_points(proposals, proposal_locks, proposal_id,
                                  voter_id, article_group, points, support, now)
           IN  /\ proposals' = r.proposals
               /\ mutated' = IF r.recorded
                             THEN [mutated EXCEPT ![proposal_id] = Some(now)]
                             ELSE mutated
               /\ returned' = Answer("commit_points", r.ok, r.raised, r.recorded)
               /\ data_file' = IF r.recorded
                                THEN write_data_to_file(save_data(r.proposals).data)
                                ELSE data_file
        /\ calls' = calls + 1
        /\ UNCHANGED <<proposal_locks, last_cleanup, now, ledgerVars,
                       constitutionVars, debateVars, tasks, executor>>

CanCloseProposal(max) ==
    \E proposal_id \in PropIds :
        /\ calls < max
        /\ LET r == can_close_proposal(proposals, proposal_locks, proposal_id, now)
           IN  returned' = Answer("can_close_proposal", r.ok, r.raised, FALSE)
        /\ calls' = calls + 1
        /\ UNCHANGED <<proposals, proposal_locks, last_cleanup, now, mutated,
                       ledgerVars, constitutionVars, debateVars, loopVars>>

\* one pass of the reaper
CheckAbandonedProposals(max) ==
    /\ calls < max
    /\ LET r == check_abandoned_proposals(proposals, last_cleanup, now)
       IN  /\ proposals' = r.proposals
           /\ last_cleanup' = r.last_cleanup
           /\ returned' = Answer("check_abandoned_proposals", r.ran, FALSE, FALSE)
           /\ data_file' = IF r.ran
                            THEN write_data_to_file(save_data(r.proposals).data)
                            ELSE data_file
    /\ calls' = calls + 1
    /\ UNCHANGED <<proposal_locks, now, mutated, ledgerVars, constitutionVars,
                   debateVars, tasks, executor>>

\* time passes between two calls
Tick(max) ==
    \E days \in Elapse :
        /\ calls < max
        /\ now' = now + days
        /\ calls' = calls + 1
        /\ UNCHANGED <<proposals, proposal_locks, last_cleanup, returned, mutated,
                       ledgerVars, constitutionVars, debateVars, loopVars>>

\* every operation of the voting system, and the clock
NextVoting ==
    \/ CreateProposal(MaxVotingOps)
    \/ ChangeState(MaxVotingOps)
    \/ AddModification(MaxVotingOps)
    \/ CommitPoints(OneVoter, OneGroup, OnePoint, MaxVotingOps)
    \/ CanCloseProposal(MaxVotingOps)
    \/ CheckAbandonedProposals(MaxVotingOps)
    \/ Tick(MaxVotingOps)

SpecVoting == InitVoting /\ [][NextVoting]_vars

\* the commits of points, between the changes of state
NextCommit ==
    \/ ChangeState(MaxCommitOps)
    \/ CommitPoints(Voters, Groups, VotePoints, MaxCommitOps)

SpecCommit == InitCommit /\ [][NextCommit]_vars

----------------------------------------------------------------------------
(* The constitution *)

\* the articles the callers ask about: the sentinel, the two of the
\* constitution and one it does not hold
ArticleIds == {"0", "1", "2", "3"}

\* the lists of article ids calculate_proposal_requirements is called with
ArticleIdLists ==
    {<<>>, <<"1">>, <<"3">>, <<"1", "2">>, <<"2", "1">>, <<"1", "3">>, <<"0">>}

\* the numbers of voters that took part in a vote
PreviousVoters == {0, 1, 2, 100, 1000}

\* the points and tallies compared with a requirement
Tallies == {-1000, 0, 1, 1000, 1000000}

\* number of calls in one behaviour of SpecConstitution
MaxConstitutionOps == 3

\* an article as update_article_history left it after a vote of 100 voters
VotedArticle ==
    [ history |-> <<100>>,
      cached_requirements |->
          Some([required_voters   |-> calculate_required_voters(100).value,
                min_participation |-> calculate_minimum_participation(100).value,
                previous_voters   |-> 100]) ]

\* Constitution.__init__ and load_constitution: each article of the file
\* was never voted, or voted once
InitConstitution ==
    /\ NoVoters
    /\ NoProposals
    /\ constitution \in [constitution_articles -> {NewArticle, VotedArticle}]
    /\ NoDebates
    /\ NoTasks
    /\ data_file = None

UpdateArticleHistory(max) ==
    \E article_id \in ArticleIds, total_voters \in PreviousVoters :
        /\ calls < max
        /\ LET r == update_article_history(constitution, article_id, total_voters)
           IN  /\ constitution' = r.articles
               /\ returned' = Answer("update_article_history", ~r.raised,
                                     r.raised, r.articles # constitution)
        /\ calls' = calls + 1
        /\ UNCHANGED <<proposals, proposal_locks, last_cleanup, now, mutated,
                       ledgerVars, debateVars, loopVars>>

GetArticleRequirements(max) ==
    \E article_id \in ArticleIds :
        /\ calls < max
        /\ LET r == get_article_requirements(constitution, article_id)
           IN  returned' = Answer("get_article_requirements",
                                  r.requirements # None, r.raised, FALSE)
        /\ calls' = calls + 1
        /\ UNCHANGED <<proposals, proposal_locks, last_cleanup, now, mutated,
                       ledgerVars, constitutionVars, debateVars, loopVars>>

CalculateProposalRequirements(max) ==
    \E article_ids \in ArticleIdLists :
        /\ calls < max
        /\ LET r == calculate_proposal_requirements(article_ids)
           IN  returned' = Answer("calculate_proposal_requirements",
                                  r.governing_article # None, FALSE, FALSE)
        /\ calls' = calls + 1
        /\ UNCHANGED <<proposals, proposal_locks, last_cleanup, now, mutated,
                       ledgerVars, constitutionVars, debateVars, loopVars>>

\* every operation of the constitution
NextConstitution ==
    \/ UpdateArticleHistory(MaxConstitutionOps)
    \/ GetArticleRequirements(MaxConstitutionOps)
    \/ CalculateProposalRequirements(MaxConstitutionOps)

SpecConstitution == InitConstitution /\ [][NextConstitution]_vars

----------------------------------------------------------------------------
(* The debate system *)

\* the proposals the debates are about; the second never has a debate
DebatedProposals == {prop(1)}

DebateCallers == {prop(1), prop(2)}

\* the article sets initialize_debate is called with
DebatedArticles == {{"1"}, {"0", "1"}}

\* the articles propose_modification is called with
ProposedArticles == {"0", "1", "2"}

\* the modification ids the callers use
ModIds == {mod(1), mod(2)}

\* the voters of the debate and the values of their points argument
DebateVoters == {"A", "B"}

DebatePoints == {-50, 60, 100}

\* the days the clock moves on by between two calls of the debate
DebateElapse == {1, 2}

\* number of calls and clock steps in one behaviour of SpecDebate
MaxDebateOps == 6

\* DebateSystem.__init__ on day 0
InitDebate ==
    /\ NoVoters
    /\ NoProposals
    /\ NoHistory
    /\ NoDebates
    /\ NoTasks
    /\ data_file = None

InitializeDebate(max) ==
    \E proposal_id \in DebatedProposals, article_ids \in DebatedArticles :
        /\ calls < max
        /\ LET r == initialize_debate(modifications, proposal_articles,
                                      proposal_id, article_ids)
           IN  /\ modifications' = r.modifications
               /\ proposal_articles' = r.proposal_articles
               /\ returned' = Answer("initialize_debate", r.ok, FALSE, r.ok)
        /\ calls' = calls + 1
        /\ UNCHANGED <<proposals, proposal_locks, last_cleanup, now, mutated,
                       ledgerVars, constitutionVars, loopVars>>

ProposeModification(max) ==
    \E proposal_id \in DebateCallers, article_id \in ProposedArticles :
        /\ calls < max
        /\ LET r == propose_modification(modifications, proposal_articles,
                                         proposal_id, article_id, "A")
           IN  /\ modifications' = r.modifications
               /\ returned' = Answer("propose_modification", r.id # None, FALSE,
                                     r.id # None)
        /\ calls' = calls + 1
        /\ UNCHANGED <<proposals, proposal_locks, last_cleanup, now, mutated,
                       proposal_articles, ledgerVars, constitutionVars, loopVars>>

StartModificationVote(max) ==
    \E proposal_id \in DebatedProposals, mod_id \in ModIds :
        /\ calls < max
        /\ LET r == start_modification_vote(modifications, proposal_id, mod_id,
                                            voting_duration, now)
           IN  /\ modifications' = r.modifications
               /\ returned' = Answer("start_modification_vote", r.ok, FALSE, r.ok)
        /\ calls' = calls + 1
        /\ UNCHANGED <<proposals, proposal_locks, last_cleanup, now, mutated,
                       proposal_articles, ledgerVars, constitutionVars, loopVars>>

VoteModification(max) ==
    \E proposal_id \in DebatedProposals, mod_id \in ModIds,
       voter_id \in DebateVoters, points \in DebatePoints :
        /\ calls < max
        /\ LET r == vote_modification(modifications, proposal_id, mod_id,
                                      voter_id, points, now)
           IN  /\ modifications' = r.modifications
               /\ returned' = Answer("vote_modification", r.ok, FALSE, r.ok)
        /\ calls' = calls + 1
        /\ UNCHANGED <<proposals, proposal_locks, last_cleanup, now, mutated,
                       proposal_articles, ledgerVars, constitutionVars, loopVars>>

GetModificationResult(max) ==
    \E proposal_id \in DebatedProposals, mod_id \in ModIds :
        /\ calls < max
        /\ LET r == get_modification_result(modifications, proposal_id, mod_id)
           IN  returned' = Answer("get_modification_result",
                                  IF r = None THEN FALSE ELSE The(r).passed,
                                  FALSE, FALSE)
        /\ calls' = calls + 1
        /\ UNCHANGED <<proposals, proposal_locks, last_cleanup, now, mutated,
                       ledgerVars, constitutionVars, debateVars, loopVars>>

\* time passes between two calls of the debate
DebateTick(max) ==
    \E days \in DebateElapse :
        /\ calls < max
        /\ now' = now + days
        /\ calls' = calls + 1
        /\ UNCHANGED <<proposals, proposal_locks, last_cleanup, returned, mutated,
                       ledgerVars, constitutionVars, debateVars, loopVars>>

\* every operation of the debate system, and the clock
NextDebate ==
    \/ InitializeDebate(MaxDebateOps)
    \/ ProposeModification(MaxDebateOps)
    \/ StartModificationVote(MaxDebateOps)
    \/ VoteModification(MaxDebateOps)
    \/ GetModificationResult(MaxDebateOps)
    \/ DebateTick(MaxDebateOps)

SpecDebate == InitDebate /\ [][NextDebate]_vars

----------------------------------------------------------------------------
(* The coroutines on the event loop *)

\* the snapshots load_data finds before the coroutines are called: one
\* proposal, in DEBATE or in VOTING
TaskSnapshots ==
    {data \in OneProposal : data[prop(1)].state \in {DEBATE, VOTING}}

\* the calls made together: a commit of voter A on the proposal, a commit
\* of voter B, and a change of the state of the proposal
TaskSets ==
    { <<a, b, c>> :
        a \in {CommitTask(prop(1), "A", g, 5, TRUE) : g \in {<<"1">>, <<"1", "2">>}},
        b \in {CommitTask(p, "B", g, 3, s) :
                   p \in {prop(1), prop(2)}, g \in {<<>>, <<"2">>}, s \in BOOLEAN},
        c \in {StateTask(prop(1), s) : s \in {GATHERING, APPROVED, ABANDONED}} }

\* VotingSystem.__init__ and load_data on day 0, and the calls handed to
\* the event loop together, none of them started
InitTasks ==
    \E data \in TaskSnapshots, called \in TaskSets :
        /\ Loaded(data)
        /\ NoHistory
        /\ NoDebates
        /\ tasks = called
        /\ executor = <<>>
        /\ data_file = Some(data)

\* commit_points up to `async with self.proposal_locks[proposal_id]`: the
\* call returns when the proposal is unknown, stops when the lock is held,
\* and goes on with the lock when the lock is free; a call that stopped
\* goes on once the lock is free
CommitEnter ==
    \E t \in DOMAIN tasks :
        /\ tasks[t].op = "commit_points"
        /\ tasks[t].pc \in {"pending", "waiting"}
        /\ LoopFree(t)
        /\ tasks[t].pc = "waiting" => ~LockHeld(tasks[t].proposal_id)
        /\ tasks' =
               [tasks EXCEPT ![t].pc =
                   IF tasks[t].proposal_id \notin DOMAIN proposals
                   THEN "done"
                   ELSE IF LockHeld(tasks[t].proposal_id)
                        THEN "waiting"
                        ELSE "locked"]
        /\ UNCHANGED <<votingVars, ledgerVars, constitutionVars, debateVars,
                       executor, data_file>>

\* proposal.validate_group_vote(article_group, points): a group that fails
\* ends the call, which gives the lock back
CommitCheck ==
    \E t \in DOMAIN tasks :
        /\ tasks[t].op = "commit_points"
        /\ tasks[t].pc = "locked"
        /\ tasks' =
               [tasks EXCEPT ![t].pc =
                   IF validate_group_vote(proposals[tasks[t].proposal_id],
                                          tasks[t].article_group, tasks[t].points)
                   THEN "checked"
                   ELSE "done"]
        /\ UNCHANGED <<votingVars, ledgerVars, constitutionVars, debateVars,
                       executor, data_file>>

\* the loop over the articles of the group, and proposal.update_activity()
CommitWrite ==
    \E t \in DOMAIN tasks :
        /\ tasks[t].op = "commit_points"
        /\ tasks[t].pc = "checked"
        /\ proposals' =
               [proposals EXCEPT ![tasks[t].proposal_id] =
                   update_activity(
                       [@ EXCEPT !.article_votes =
                           record_votes(@, tasks[t].voter_id, tasks[t].article_group,
                                        tasks[t].points, tasks[t].support, 0)],
                       now)]
        /\ mutated' = [mutated EXCEPT ![tasks[t].proposal_id] = Some(now)]
        /\ tasks' = [tasks EXCEPT ![t].pc = "written", ![t].recorded = TRUE]
        /\ UNCHANGED <<proposal_locks, last_cleanup, now, returned, calls,
                       ledgerVars, constitutionVars, debateVars, executor,
                       data_file>>

\* await self._save_data(): the snapshot is handed to the executor; when
\* the await raises the call returns False and gives the lock back, and
\* otherwise it stops, with the lock, until the write is finished
CommitSave ==
    \E t \in DOMAIN tasks :
        /\ tasks[t].op = "commit_points"
        /\ tasks[t].pc = "written"
        /\ LET r == save_data(proposals)
           IN  /\ executor' = Append(executor, [by |-> t, data |-> r.data])
               /\ tasks' = [tasks EXCEPT ![t].pc =
                               IF r.raised THEN "done" ELSE "saving"]
        /\ UNCHANGED <<votingVars, ledgerVars, constitutionVars, debateVars,
                       data_file>>

\* change_state up to `async with self.state_lock`
ChangeStateEnter ==
    \E t \in DOMAIN tasks :
        /\ tasks[t].op = "change_state"
        /\ tasks[t].pc = "pending"
        /\ LoopFree(t)
        /\ ~StateLockHeld(tasks[t].proposal_id)
        /\ tasks' = [tasks EXCEPT ![t].pc = "state_locked"]
        /\ UNCHANGED <<votingVars, ledgerVars, constitutionVars, debateVars,
                       executor, data_file>>

\* the body of change_state, under the state lock of the proposal
ChangeStateApply ==
    \E t \in DOMAIN tasks :
        /\ tasks[t].op = "change_state"
        /\ tasks[t].pc = "state_locked"
        /\ LET r == change_state(proposals[tasks[t].proposal_id],
                                 tasks[t].new_state)
           IN  /\ proposals' =
                      [proposals EXCEPT ![tasks[t].proposal_id] = r.proposal]
               /\ tasks' = [tasks EXCEPT ![t].pc = "done", ![t].ok = r.ok]
        /\ UNCHANGED <<proposal_locks, last_cleanup, now, returned, mutated, calls,
                       ledgerVars, constitutionVars, debateVars, executor,
                       data_file>>

\* a thread of the executor finishes one of the writes in progress, the
\* first max_workers of those handed over; the call that waits for this
\* write returns True and gives its lock back
WriteFile ==
    \E i \in 1..Len(executor) :
        /\ i <= max_workers
        /\ data_file' = write_data_to_file(executor[i].data)
        /\ executor' = [j \in 1..(Len(executor) - 1) |->
                           IF j < i THEN executor[j] ELSE executor[j + 1]]
        /\ tasks' = [t \in DOMAIN tasks |->
                        IF t = executor[i].by /\ tasks[t].pc = "saving"
                        THEN [tasks[t] EXCEPT !.pc = "done", !.ok = TRUE]
                        ELSE tasks[t]]
        /\ UNCHANGED <<votingVars, ledgerVars, constitutionVars, debateVars>>

\* every step of the coroutines and of the executor
NextTasks ==
    \/ CommitEnter
    \/ CommitCheck
    \/ CommitWrite
    \/ CommitSave
    \/ ChangeStateEnter
    \/ ChangeStateApply
    \/ WriteFile

SpecTasks == InitTasks /\ [][NextTasks]_vars

----------------------------------------------------------------------------
(* The reaper among the commits: check_abandoned_proposals as a coroutine   *)
(* of the event loop, with calls of commit_points and the clock.            *)

\* the snapshots the reaper works on: one proposal that is not closed, or
\* two of them
ReaperSnapshots ==
    { data \in Snapshots :
        /\ data # <<>>
        /\ data[prop(1)].state \in {DEBATE, VOTING} }

\* the calls made together: a commit of voter A on the first proposal, a
\* commit of voter B, and the pass of the reaper
ReaperTaskSets ==
    { <<a, b, ReaperTask>> :
        a \in {CommitTask(prop(1), "A", <<"1">>, 5, TRUE)},
        b \in {CommitTask(p, "B", g, 3, TRUE) :
                   p \in {prop(1), prop(2)}, g \in {<<>>, <<"2">>}} }

\* number of steps of the clock in one behaviour of SpecReaper
MaxReaperTicks == 2

InitReaper ==
    \E data \in ReaperSnapshots, called \in ReaperTaskSets :
        /\ Loaded(data)
        /\ NoHistory
        /\ NoDebates
        /\ tasks = called
        /\ executor = <<>>
        /\ data_file = Some(data)

\* the place in self.proposals.items() after proposal_id, or none
proposal_after(registry, proposal_id) ==
    LET i == CHOOSE j \in 1..Cardinality(DOMAIN registry) : prop(j) = proposal_id
    IN  IF i < Cardinality(DOMAIN registry) THEN Some(prop(i + 1)) ELSE None

\* the task t of the reaper goes on to the next proposal of the loop, or
\* leaves the loop
loop_on(task, registry) ==
    LET next == proposal_after(registry, task.proposal_id)
    IN  IF next = None
        THEN [task EXCEPT !.pc = "swept"]
        ELSE [task EXCEPT !.pc = "deciding", !.proposal_id = The(next)]

\* check_abandoned_proposals up to the loop: the call returns when the
\* last pass is less than cleanup_interval old; `async with asyncio.Lock()`
\* takes a lock nobody else has
ReaperEnter ==
    \E t \in DOMAIN tasks :
        /\ tasks[t].op = "check_abandoned_proposals"
        /\ tasks[t].pc = "pending"
        /\ LoopFree(t)
        /\ tasks' =
               [tasks EXCEPT ![t].pc =
                   IF now - last_cleanup < cleanup_interval THEN "done"
                   ELSE IF DOMAIN proposals = {} THEN "swept"
                   ELSE "deciding"]
        /\ UNCHANGED <<votingVars, ledgerVars, constitutionVars, debateVars,
                       executor, data_file>>

\* `if await self._should_abandon_proposal(proposal)` and, in
\* _abandon_proposal, `async with self.proposal_locks[proposal_id]`: a
\* proposal to abandon whose lock is held stops the pass until the lock is
\* free, and the pass then goes on without deciding again
ReaperDecide ==
    \E t \in DOMAIN tasks :
        /\ tasks[t].op = "check_abandoned_proposals"
        /\ tasks[t].pc \in {"deciding", "reaper_waiting"}
        /\ tasks[t].pc = "reaper_waiting" =>
               LoopFree(t) /\ ~LockHeld(tasks[t].proposal_id)
        /\ tasks' =
               [tasks EXCEPT ![t] =
                   IF /\ tasks[t].pc = "deciding"
                      /\ ~should_abandon_proposal(proposals[tasks[t].proposal_id], now)
                   THEN loop_on(@, proposals)
                   ELSE IF LockHeld(tasks[t].proposal_id)
                        THEN [@ EXCEPT !.pc = "reaper_waiting"]
                        ELSE [@ EXCEPT !.pc = "abandoning"]]
        /\ UNCHANGED <<votingVars, ledgerVars, constitutionVars, debateVars,
                       executor, data_file>>

\* the body of _abandon_proposal, under the lock of the proposal
ReaperAbandon ==
    \E t \in DOMAIN tasks :
        /\ tasks[t].op = "check_abandoned_proposals"
        /\ tasks[t].pc = "abandoning"
        /\ proposals' =
               [proposals EXCEPT ![tasks[t].proposal_id] =
                   abandon_proposal(@).proposal]
        /\ tasks' = [tasks EXCEPT ![t] = loop_on(@, proposals)]
        /\ UNCHANGED <<proposal_locks, last_cleanup, now, returned, mutated, calls,
                       ledgerVars, constitutionVars, debateVars, executor,
                       data_file>>

\* self.last_cleanup = datetime.now() and await self._save_data(), whose
\* exception is caught and logged
ReaperSave ==
    \E t \in DOMAIN tasks :
        /\ tasks[t].op = "check_abandoned_proposals"
        /\ tasks[t].pc = "swept"
        /\ last_cleanup' = now
        /\ LET r == save_data(proposals)
           IN  /\ executor' = Append(executor, [by |-> t, data |-> r.data])
               /\ tasks' = [tasks EXCEPT ![t].pc =
                               IF r.raised THEN "done" ELSE "saving",
                             ![t].ok = TRUE]
        /\ UNCHANGED <<proposals, proposal_locks, now, returned, mutated, calls,
                       ledgerVars, constitutionVars, debateVars, data_file>>

\* every step of the reaper, of the commits, of the executor and of the
\* clock
NextReaper ==
    \/ CommitEnter
    \/ CommitCheck
    \/ CommitWrite
    \/ CommitSave
    \/ ReaperEnter
    \/ ReaperDecide
    \/ ReaperAbandon
    \/ ReaperSave
    \/ WriteFile
    \/ Tick(MaxReaperTicks)

SpecReaper == InitReaper /\ [][NextReaper]_vars

----------------------------------------------------------------------------
(* Vocabulary of the properties *)

\* the points of the entry under k, 0 when there is none
PointsOn(d, k) == IF HasKey(d, k) THEN Entry(d, k).points ELSE 0

\* the voters u delegates to
Delegates(V, u) == {V[u].delegations[i].id : i \in 1..Len(V[u].delegations)}

\* the voters reached from S along at most n further delegations
RECURSIVE ReachedFrom(_, _, _)
ReachedFrom(V, S, n) ==
    IF n = 0 THEN S
    ELSE ReachedFrom(V, S \cup UNION {Delegates(V, u) : u \in S \cap DOMAIN V}, n - 1)

OnCycle(V, v) == v \in ReachedFrom(V, Delegates(V, v), Cardinality(DOMAIN V))

Acyclic(V) == \A v \in DOMAIN V : ~OnCycle(V, v)

\* the behaviour of Spec goes on with another call
CallsLeft == nops < MaxOps

SomeDelegation(V) == \E v \in DOMAIN V : V[v].delegations # <<>>

NoDelegations(V) ==
    \A v \in DOMAIN V : V[v].delegations = <<>> /\ V[v].received_points = <<>>

\* the two ends of every delegation agree
TwoEndsAgree ==
    \A u \in DOMAIN voters, v \in Ids :
        /\ HasKey(voters[u].delegations, v) =>
              /\ v \in DOMAIN voters
              /\ HasKey(voters[v].received_points, u)
              /\ Entry(voters[v].received_points, u).points =
                     Entry(voters[u].delegations, v).points
              /\ Entry(voters[u].delegations, v).points > 0
        /\ HasKey(voters[u].received_points, v) =>
              v \in DOMAIN voters /\ HasKey(voters[v].delegations, u)

----------------------------------------------------------------------------
(* C1 *)

\* C1: in every state a call has returned to, every voter has
\* available_points + RESERVED_POINTS + the points of its outgoing
\* delegations equal to base_points, the voters of a resolved cycle included.
C1_PointsConserved ==
    \A v \in DOMAIN voters :
        voters[v].available_points + RESERVED_POINTS
            + SumPoints(voters[v].delegations) = base_points

----------------------------------------------------------------------------
(* C2 *)

----------------------------------------------------------------------------
(* C3 *)

\* C3: in every state a call has returned to, the delegations form no
\* directed cycle, self-loops included.
C3_NoCycleReturned == Acyclic(voters)

\* one delegation closed several cycles, which all run through its edge
C3_Witness ==
    /\ last.op \in {"delegate", "subdelegate"} /\ last.ok
    /\ last.cycles >= 2

----------------------------------------------------------------------------
(* C4 *)

\* the delegations cycle[i] -> cycle[i+1] and cycle[k] -> cycle[1]
CycleEdgeSet(cycle) == {cycle_edges(cycle)[i] : i \in 1..Len(cycle)}

EveryEdgePresent(V, cycle) ==
    \A e \in CycleEdgeSet(cycle) :
        e.from \in DOMAIN V /\ e.to \in DOMAIN V /\ HasKey(V[e.from].delegations, e.to)

\* `after` is `before` with the cycle resolved as C4 describes
ResolvedAs(before, after, cycle) ==
    LET E == CycleEdgeSet(cycle)
        m == CHOOSE x \in {PointsOn(before[e.from].delegations, e.to) : e \in E} :
                 \A e \in E : x <= PointsOn(before[e.from].delegations, e.to)
    IN  /\ \A e \in E :
              LET left == PointsOn(before[e.from].delegations, e.to) - m
              IN  /\ PointsOn(after[e.from].delegations, e.to) = left
                  /\ PointsOn(after[e.to].received_points, e.from) =
                         PointsOn(before[e.to].received_points, e.from) - m
                  /\ left = 0 =>
                         /\ ~HasKey(after[e.from].delegations, e.to)
                         /\ ~HasKey(after[e.to].received_points, e.from)
        /\ after[cycle[1]].available_points = before[cycle[1]].available_points + m

\* C4: whatever delegation comes next, every cycle it detects starts at the
\* voter who delegated, and resolving a cycle whose edges are all there
\* takes the least points m of its edges off every edge, on both ends,
\* removes the edges left with 0 and adds exactly m to the available_points
\* of that voter.
C4_CycleResolution ==
    CallsLeft =>
    \A f \in Ids, t \in Ids, p \in Points, s \in BOOLEAN :
        LET r == delegate_points(voters, f, t, p, s)
        IN  \A n \in 1..Len(r.cycles) :
                LET before == clean_cycles(r.entered, r.cycles, n - 1)
                    after  == clean_delegation_cycle(before, r.cycles[n])
                IN  /\ r.cycles[n][1] = f
                    /\ EveryEdgePresent(before, r.cycles[n]) =>
                           ResolvedAs(before, after, r.cycles[n])

\* a delegation resolved a cycle and left delegations of it in place
C4_Witness ==
    /\ last.op = "delegate" /\ last.ok
    /\ last.cycles >= 1
    /\ SomeDelegation(voters)

----------------------------------------------------------------------------
(* C5 *)

\* A -> B 500 (subdelegable) and B -> C 300 are the delegations there are
Scenario5(V) ==
    /\ DOMAIN V = Ids
    /\ V["A"].delegations = <<[id |-> "B", points |-> 500, subdelegable |-> TRUE]>>
    /\ Len(V["B"].delegations) = 1
    /\ PointsOn(V["B"].delegations, "C") = 300
    /\ V["C"].delegations = <<>>

\* the step is the successful call delegate_points("C", "A", 200, s) made in
\* the state of Scenario5
Scenario5Step(s) ==
    /\ Scenario5(voters)
    /\ delegate_points(voters, "C", "A", 200, s).ok
    /\ last'.op = "delegate" /\ last'.ok
    /\ voters' = delegate_points(voters, "C", "A", 200, s).voters

----------------------------------------------------------------------------
(* C6 *)

\* A -> B 600 (subdelegable) and B -> C 400 are the delegations there are
Scenario6(V) ==
    /\ DOMAIN V = Ids
    /\ V["A"].delegations = <<[id |-> "B", points |-> 600, subdelegable |-> TRUE]>>
    /\ Len(V["B"].delegations) = 1
    /\ PointsOn(V["B"].delegations, "C") = 400
    /\ V["C"].delegations = <<>>

\* C6: a successful revoke_delegation(from, to) removes from -> to, removes
\* every delegation of the voters reached from to, and adds the points it
\* returns to the available_points of from; in the state of Scenario6,
\* revoke_delegation("A", "B") returns (True, 600) and B -> C is gone.
C6_RevokeSubtree ==
    /\ \A f \in Ids, t \in Ids :
          LET r == revoke_delegation(voters, f, t)
          IN  r.ok =>
                /\ ~HasKey(r.voters[f].delegations, t)
                /\ ~HasKey(r.voters[t].received_points, f)
                /\ \A u \in ReachedFrom(voters, {t}, Cardinality(DOMAIN voters)) :
                       /\ r.voters[u].delegations = <<>>
                       /\ \A w \in DOMAIN voters :
                              ~HasKey(r.voters[w].received_points, u)
                /\ r.voters[f].available_points =
                       voters[f].available_points + r.points
    /\ Scenario6(voters) =>
          LET r == revoke_delegation(voters, "A", "B")
          IN  /\ r.ok
              /\ r.points = 600
              /\ ~HasKey(r.voters["B"].delegations, "C")
              /\ ~HasKey(r.voters["C"].received_points, "B")

\* the state revoke_delegation("A", "B") returns to in the scenario: 600
\* points recovered, B still 400 short, no delegation left
C6_Witness ==
    /\ last.op = "revoke" /\ last.ok /\ last.points_recovered = 600
    /\ DOMAIN voters = Ids
    /\ NoDelegations(voters)
    /\ voters["A"].available_points = 998
    /\ voters["B"].available_points = 598
    /\ voters["C"].available_points = 998

----------------------------------------------------------------------------
(* C7 *)

\* C7: revoke_delegation(from, to) with from or to unknown, or with no
\* delegation from -> to, returns (False, 0), raises nothing and leaves
\* every voter record as it was.
C7_RevokeRejects ==
    \A f \in Ids, t \in Ids :
        LET r == revoke_delegation(voters, f, t)
            noEdge ==
                \/ f \notin DOMAIN voters
                \/ t \notin DOMAIN voters
                \/ ~HasKey(voters[f].delegations, t)
        IN  noEdge => /\ ~r.ok
                      /\ r.points = 0
                      /\ ~r.raised
                      /\ r.voters = voters

\* a revoke was refused in a registry that holds delegations
C7_Witness ==
    /\ last.op = "revoke" /\ ~last.ok /\ last.points_recovered = 0
    /\ SomeDelegation(voters)

----------------------------------------------------------------------------
(* C8 *)

\* C8: the points a voter has passed on by successful subdelegate_points
\* calls never exceed the points it holds in received entries flagged
\* subdelegable.  (subdelegated restarts from 0 whenever a cycle is resolved
\* or a delegation revoked, so it never counts points given back.)
C8_SubdelegatedWithinReceived ==
    \A v \in DOMAIN voters :
        subdelegated[v] <= subdelegable_received(voters[v])

----------------------------------------------------------------------------
(* C9 *)

\* C9: after every successful subdelegate_points(from, to, points) the
\* delegation from -> to is non-subdelegable on both of its ends, also when
\* it was there before the call.
C9_SubdelegatedEdgeFinal ==
    [][ \A f \in Ids, t \in Ids, p \in Points :
          ( /\ subdelegate_points(voters, f, t, p).ok
            /\ last'.op = "subdelegate" /\ last'.ok
            /\ voters' = subdelegate_points(voters, f, t, p).voters
            /\ HasKey(voters'[f].delegations, t) )
          => /\ ~Entry(voters'[f].delegations, t).subdelegable
             /\ ~Entry(voters'[t].received_points, f).subdelegable ]_vars

----------------------------------------------------------------------------
(* C10 *)

\* C10: add_voter on an id that is a voter already returns False and leaves
\* the record of that voter and of every other voter as it was.
C10_AddVoterIdempotent ==
    \A id \in DOMAIN voters :
        LET r == add_voter(voters, id)
        IN  ~r.ok /\ r.voters = voters

\* add_voter was called on a known id in a registry that holds delegations
C10_Witness ==
    /\ last.op = "add_voter" /\ ~last.ok
    /\ SomeDelegation(voters)

----------------------------------------------------------------------------
(* Vocabulary of the properties of the voting system *)

\* the transitions a proposal may make
TransitionTable ==
    { <<DRAFT, GATHERING>>, <<DRAFT, ABANDONED>>,
      <<GATHERING, DEBATE>>, <<GATHERING, ABANDONED>>,
      <<DEBATE, VOTING>>, <<DEBATE, ABANDONED>>,
      <<VOTING, APPROVED>>, <<VOTING, REJECTED>>, <<VOTING, ABANDONED>>,
      <<CLEANUP, ABANDONED>> }

\* the states no transition leaves
Terminal == {APPROVED, REJECTED, PUBLISHED, ABANDONED}

\* the deadline of P has passed and its support and its votes are enough
Closable(P, today) ==
    /\ P.deadline # None
    /\ today >= The(P.deadline)
    /\ SumValues(P.supporters) >= P.required_voters
    /\ P.min_participation # None
    /\ SumValues(P.supporters) + SumValues(P.opponents) >= The(P.min_participation)

\* the share of the article at place i, the first at 1, of `points` split
\* over n articles
Share(points, n, i) == (points \div n) + (IF i <= points % n THEN 1 ELSE 0)

Magnitude(x) == IF x < 0 THEN 0 - x ELSE x

\* the next call of commit_points with these arguments
NextCommitPoints(p, v, g, n, s) ==
    commit_points(proposals, proposal_locks, p, v, g, n, s, now)

\* what the commit r of voter v over the group g left on the article at
\* place i of the group
Left(r, p, v, g, i) == r.proposals[p].article_votes[g[i]][v]

\* the commit r of n points over the group g left shares of n whose
\* magnitudes sum to n and differ by at most one
SplitEvenly(r, p, v, g, n) ==
    /\ \A i \in 1..Len(g) :
           Magnitude(Left(r, p, v, g, i)) = Share(n, Len(g), i)
    /\ SumValues([i \in 1..Len(g) |-> Magnitude(Left(r, p, v, g, i))]) = n
    /\ \A i, j \in 1..Len(g) :
           Magnitude(Left(r, p, v, g, i)) - Magnitude(Left(r, p, v, g, j)) <= 1

\* the step is a pass of the reaper that abandons proposal p
ReaperAbandons(p) ==
    /\ returned'.op = "check_abandoned_proposals"
    /\ proposals[p].state # ABANDONED
    /\ proposals'[p].state = ABANDONED

----------------------------------------------------------------------------
(* C11 *)

\* C11: a request to change the state of a proposal succeeds, and then
\* changes the state and nothing else, exactly when the table has the pair
\* of the present state and the requested one; every other request returns
\* failure and leaves the proposal as it was.  No step of any operation
\* changes a state along a pair the table lacks, so a proposal that is
\* APPROVED, REJECTED, PUBLISHED or ABANDONED keeps its state for ever.
C11_TransitionTable ==
    [][ /\ \A p \in DOMAIN proposals, s \in ProposalState :
               LET r == change_state(proposals[p], s)
               IN  IF <<proposals[p].state, s>> \in TransitionTable
                   THEN r.ok /\ r.proposal = [proposals[p] EXCEPT !.state = s]
                   ELSE ~r.ok /\ r.proposal = proposals[p]
        /\ \A p \in DOMAIN proposals :
               /\ p \in DOMAIN proposals'
               /\ proposals'[p].state # proposals[p].state =>
                      <<proposals[p].state, proposals'[p].state>> \in TransitionTable
               /\ proposals[p].state \in Terminal =>
                      proposals'[p].state = proposals[p].state
      ]_vars

\* a change of state has been refused on a proposal that was approved
C11_Witness ==
    /\ returned.op = "change_state"
    /\ ~returned.ok
    /\ DOMAIN proposals = {prop(1)}
    /\ proposals[prop(1)].state = APPROVED
    /\ calls >= 2

----------------------------------------------------------------------------
(* C12 *)

\* C12: a proposal goes from VOTING to APPROVED only when its deadline has
\* passed, its support is at least required_voters and its votes are at
\* least min_participation.
C12_ApprovedOnlyWhenClosable ==
    [][ \A p \in DOMAIN proposals :
            (proposals[p].state = VOTING /\ proposals'[p].state = APPROVED) =>
                Closable(proposals[p], now)
      ]_vars

----------------------------------------------------------------------------
(* C13 *)

\* C13: create_proposal with an empty owner, an empty title or no existing
\* article returns failure, raises nothing and leaves the registry as it was.
C13_MalformedCreateFails ==
    \A owner_id \in Owners, title \in Titles,
       existing_articles \in ExistingArticles, new_articles \in NewArticles :
        (owner_id = "" \/ title = "" \/ existing_articles = <<>>) =>
            LET r == create_proposal(proposals, proposal_locks, owner_id, title,
                                     existing_articles, new_articles, now)
            IN  ~r.ok /\ ~r.raised /\ r.proposals = proposals

----------------------------------------------------------------------------
(* C14 *)

\* C14: create_proposal by a known owner with a title, an existing article
\* and new articles that have text succeeds: it returns an id no proposal
\* had, and registers under it a proposal in DRAFT with the articles given,
\* leaving the other proposals as they were.
C14_WellFormedCreateRegisters ==
    \A owner_id \in Owners, title \in Titles,
       existing_articles \in ExistingArticles, new_articles \in NewArticles :
        ( /\ owner_id \in Ids
          /\ title # ""
          /\ existing_articles # <<>>
          /\ \A i \in 1..Len(new_articles) : new_articles[i].new_text \notin {"", " "} )
        =>
            LET r == create_proposal(proposals, proposal_locks, owner_id, title,
                                     existing_articles, new_articles, now)
            IN  /\ r.ok
                /\ r.id # None
                /\ The(r.id) \notin DOMAIN proposals
                /\ DOMAIN r.proposals = DOMAIN proposals \cup r.id
                /\ \A p \in DOMAIN proposals : r.proposals[p] = proposals[p]
                /\ LET P == r.proposals[The(r.id)]
                   IN  /\ P.state = DRAFT
                       /\ P.owner_id = owner_id
                       /\ [i \in 1..Len(P.existing_articles) |->
                               P.existing_articles[i].id]
                            = [i \in 1..Len(existing_articles) |->
                                   existing_articles[i].id]
                       /\ [i \in 1..Len(P.new_articles) |-> P.new_articles[i].id]
                            = [i \in 1..Len(new_articles) |-> new_articles[i].id]

----------------------------------------------------------------------------
(* C15 *)

\* C15: commit_points returns success only for a proposal in VOTING and
\* points that reach the requirement of every article of the group; for a
\* proposal in another state, an unknown proposal or an empty group it
\* returns failure, raises nothing and leaves every article_votes as it was.
C15_CommitOnlyInVoting ==
    \A p \in PropIds, v \in Voters, g \in Groups, n \in VotePoints, s \in BOOLEAN :
        LET r == NextCommitPoints(p, v, g, n, s)
        IN  /\ r.ok =>
                   /\ p \in DOMAIN proposals
                   /\ proposals[p].state = VOTING
                   /\ g # <<>>
                   /\ \A i \in 1..Len(g) :
                          n >= article_requirement(proposals[p], g[i]).required_voters
            /\ (p \notin DOMAIN proposals \/ g = <<>> \/ proposals[p].state # VOTING) =>
                   /\ ~r.ok
                   /\ ~r.raised
                   /\ \A q \in DOMAIN proposals :
                          r.proposals[q].article_votes = proposals[q].article_votes

----------------------------------------------------------------------------
(* C16 *)

\* C16 as it stands: a commit_points that records n points over the
\* articles of a group leaves on each the share points div n, one more on
\* the first points mod n; the magnitudes sum to n and differ by at most
\* one; every amount is positive for support and negative for opposition.
C16_AsStated ==
    \A p \in DOMAIN proposals, v \in Voters, g \in Groups, n \in VotePoints,
       s \in BOOLEAN :
        LET r == NextCommitPoints(p, v, g, n, s)
        IN  r.recorded =>
                /\ SplitEvenly(r, p, v, g, n)
                /\ \A i \in 1..Len(g) :
                       IF s THEN Left(r, p, v, g, i) > 0
                       ELSE Left(r, p, v, g, i) < 0

\* C16: a commit_points that records n points over the articles of a
\* group leaves on each the share points div n, one more on the first
\* points mod n; the magnitudes sum to n and differ by at most one; no
\* amount is negative for support and none positive for opposition, and
\* the amount is 0 exactly on the articles after the first n of the group.
C16_EvenSplit ==
    \A p \in DOMAIN proposals, v \in Voters, g \in Groups, n \in VotePoints,
       s \in BOOLEAN :
        LET r == NextCommitPoints(p, v, g, n, s)
        IN  r.recorded =>
                /\ SplitEvenly(r, p, v, g, n)
                /\ \A i \in 1..Len(g) :
                       /\ IF s THEN Left(r, p, v, g, i) >= 0
                          ELSE Left(r, p, v, g, i) <= 0
                       /\ Left(r, p, v, g, i) = 0 <=> i > n

\* a commit has recorded 5 points of one voter over two articles as 3 and 2
C16_Witness ==
    /\ returned.op = "commit_points"
    /\ returned.recorded
    /\ \E p \in DOMAIN proposals, v \in Voters :
           /\ {"1", "2"} \subseteq DOMAIN proposals[p].article_votes
           /\ v \in DOMAIN proposals[p].article_votes["1"]
           /\ v \in DOMAIN proposals[p].article_votes["2"]
           /\ proposals[p].article_votes["1"][v] = 3
           /\ proposals[p].article_votes["2"][v] = 2

----------------------------------------------------------------------------
(* C17 *)

\* C17: a commit_points that records leaves on every article of the group,
\* under the voter, the share of this commit alone, with the sign of this
\* commit, whatever the voter had there before; the entries of the other
\* voters, the articles outside the group and the other proposals are as
\* they were, and no entry appears but the voter's on the articles of the
\* group.
C17_CommitReplaces ==
    \A p \in DOMAIN proposals, v \in Voters, g \in Groups, n \in VotePoints,
       s \in BOOLEAN :
        LET r == NextCommitPoints(p, v, g, n, s)
            old == proposals[p].article_votes
            new == r.proposals[p].article_votes
            group == {g[i] : i \in 1..Len(g)}
        IN  r.recorded =>
                /\ \A i \in 1..Len(g) :
                       Left(r, p, v, g, i) =
                           IF s THEN Share(n, Len(g), i) ELSE 0 - Share(n, Len(g), i)
                /\ DOMAIN new = DOMAIN old \cup group
                /\ \A a \in DOMAIN new :
                       /\ DOMAIN new[a] =
                              (IF a \in DOMAIN old THEN DOMAIN old[a] ELSE {})
                                  \cup (IF a \in group THEN {v} ELSE {})
                       /\ \A w \in DOMAIN new[a] :
                              (w # v \/ a \notin group) => new[a][w] = old[a][w]
                /\ \A q \in DOMAIN proposals \ {p} : r.proposals[q] = proposals[q]

\* voter A holds 3 in support on article 2 and 5 in opposition on article 1:
\* the 3 came with a 2 in support on article 1, which a later commit of A
\* in opposition has replaced
C17_Witness ==
    /\ returned.op = "commit_points"
    /\ returned.recorded
    /\ prop(1) \in DOMAIN proposals
    /\ {"1", "2"} \subseteq DOMAIN proposals[prop(1)].article_votes
    /\ "A" \in DOMAIN proposals[prop(1)].article_votes["1"]
    /\ "A" \in DOMAIN proposals[prop(1)].article_votes["2"]
    /\ proposals[prop(1)].article_votes["2"]["A"] = 3
    /\ proposals[prop(1)].article_votes["1"]["A"] = -5

----------------------------------------------------------------------------
(* C18 *)

\* C18: can_close_proposal raises nothing, and returns true only for a
\* proposal in VOTING whose deadline has passed, whose support is at least
\* required_voters and whose votes are at least min_participation.
C18_CloseOnlyWhenEligible ==
    /\ returned.op = "can_close_proposal" => ~returned.raised
    /\ \A p \in PropIds :
           can_close_proposal(proposals, proposal_locks, p, now).ok =>
               /\ p \in DOMAIN proposals
               /\ proposals[p].state = VOTING
               /\ Closable(proposals[p], now)

----------------------------------------------------------------------------
(* C19 *)

\* C19: a pass of the reaper abandons a proposal only if the proposal is
\* not APPROVED, REJECTED or PUBLISHED and more than 30 days have passed
\* since its last activity and since its last mutating call.
C19_ReaperAfterThirtyDays ==
    [][ \A p \in DOMAIN proposals :
            ReaperAbandons(p) =>
                /\ proposals[p].state \notin {APPROVED, REJECTED, PUBLISHED}
                /\ now - proposals[p].last_activity > 30
                /\ mutated[p] # None => now - The(mutated[p]) > 30
      ]_vars

\* the reaper has abandoned a proposal whose last mutating call is more
\* than 30 days old
C19_Witness ==
    /\ returned.op = "check_abandoned_proposals"
    /\ returned.ok
    /\ \E p \in DOMAIN proposals :
           /\ proposals[p].state = ABANDONED
           /\ mutated[p] # None
           /\ now - The(mutated[p]) > 30

----------------------------------------------------------------------------
(* C20 *)

\* C20: a proposal the reaper abandons was in CLEANUP just before it became
\* ABANDONED, and has no vote tallies once it is ABANDONED.
C20_AbandonedThroughCleanup ==
    [][ \A p \in DOMAIN proposals :
            ReaperAbandons(p) =>
                /\ abandon_proposal(proposals[p]).states =
                       <<proposals[p].state, CLEANUP, ABANDONED>>
                /\ proposals'[p].article_votes = <<>>
      ]_vars

----------------------------------------------------------------------------
(* Vocabulary of the properties of the coroutines *)

\* t and u are calls of commit_points by two voters on groups of one
\* proposal that share no article
ConcurrentCommits(t, u) ==
    /\ tasks[t].op = "commit_points"
    /\ tasks[u].op = "commit_points"
    /\ tasks[t].proposal_id = tasks[u].proposal_id
    /\ tasks[t].voter_id # tasks[u].voter_id
    /\ \A i \in 1..Len(tasks[t].article_group), j \in 1..Len(tasks[u].article_group) :
           tasks[t].article_group[i] # tasks[u].article_group[j]

\* the tally holds what the call t committed on each article of its group
Committed(t) ==
    LET votes == proposals[tasks[t].proposal_id].article_votes
        group == tasks[t].article_group
    IN  \A i \in 1..Len(group) :
            /\ group[i] \in DOMAIN votes
            /\ tasks[t].voter_id \in DOMAIN votes[group[i]]
            /\ votes[group[i]][tasks[t].voter_id] =
                   IF tasks[t].support
                   THEN Share(tasks[t].points, Len(group), i)
                   ELSE 0 - Share(tasks[t].points, Len(group), i)

\* the call t of commit_points is between its requirement check and its
\* return
InCommit(t) ==
    /\ tasks[t].op = "commit_points"
    /\ tasks[t].pc \in {"checked", "written", "saving"}

----------------------------------------------------------------------------
(* C21 *)

\* C21: when two calls of commit_points by two voters on groups of one
\* proposal that share no article have both returned after recording,
\* the article_votes of the proposal hold, for each of the two and on each
\* article of its group, the amount that call committed, in whatever order
\* the event loop ran the steps of the calls.
C21_BothCommitsKept ==
    \A t, u \in DOMAIN tasks :
        ( /\ t # u
          /\ ConcurrentCommits(t, u)
          /\ tasks[t].pc = "done" /\ tasks[t].recorded
          /\ tasks[u].pc = "done" /\ tasks[u].recorded )
        => Committed(t) /\ Committed(u)

\* the commits of A on article 1 and of B on article 2 have both returned,
\* and both are in the tally
C21_Witness ==
    /\ \A t \in {1, 2} : tasks[t].pc = "done" /\ tasks[t].recorded
    /\ ConcurrentCommits(1, 2)
    /\ proposals[prop(1)].article_votes["1"]["A"] = 5
    /\ "B" \in DOMAIN proposals[prop(1)].article_votes["2"]

----------------------------------------------------------------------------
(* C22 *)

\* C22: while a commit_points on a proposal is between its requirement
\* check and its return, no step changes the state of that proposal; and
\* while a change_state of a proposal is in progress, no commit_points on
\* that proposal enters its critical section.
C22_CommitExcludesChangeState ==
    [][ \A t \in DOMAIN tasks :
            /\ InCommit(t) =>
                   proposals'[tasks[t].proposal_id].state =
                       proposals[tasks[t].proposal_id].state
            /\ ( /\ tasks[t].op = "commit_points"
                 /\ StateLockHeld(tasks[t].proposal_id) )
               => (tasks'[t].pc = "locked" => tasks[t].pc = "locked")
      ]_vars

\* a commit on a proposal is between its check and its return while a
\* change of the state of that proposal, to a state the proposal can go
\* to, waits for the event loop
C22_Witness ==
    \E t, u \in DOMAIN tasks :
        /\ InCommit(t)
        /\ tasks[u].op = "change_state"
        /\ tasks[u].proposal_id = tasks[t].proposal_id
        /\ tasks[u].pc = "pending"
        /\ is_valid_state_transition(proposals[tasks[t].proposal_id].state,
                                     tasks[u].new_state)

----------------------------------------------------------------------------
(* C23 *)

\* C23: no finite tally meets the requirement of article "0": the
\* required_voters get_article_requirements reports for it, and the one
\* calculate_required_voters gives for previous_voters 0, are reached by no
\* number of points.
C23_ArticleZeroUnreachable ==
    LET r == get_article_requirements(constitution, "0")
    IN  /\ ~r.raised
        /\ r.requirements # None
        /\ \A n \in Tallies :
               /\ ~at_least(n, The(r.requirements).required_voters)
               /\ ~at_least(n, calculate_required_voters(0).value)

----------------------------------------------------------------------------
(* C24 *)

\* C24: create_proposal with article "0" among its articles and
\* add_modification on article "0" return failure and leave the registry
\* and the articles of every proposal as they were.
C24_ArticleZeroRefused ==
    /\ \A owner_id \in Owners, title \in Titles :
           LET r == create_proposal(proposals, proposal_locks, owner_id, title,
                                    <<[id |-> "0", new_text |-> "t"]>>, <<>>, now)
           IN  ~r.ok /\ r.proposals = proposals
    /\ \A proposal_id \in PropIds, voter_id \in Ids :
           LET r == add_modification(proposals, proposal_id, "0",
                                     [new_text |-> "t"], voter_id, now)
           IN  ~r.ok /\ r.proposals = proposals

----------------------------------------------------------------------------
(* C25 *)

\* C25: calculate_proposal_requirements of a list of articles returns the
\* required_voters and min_participation it returns for one article of the
\* list alone, the governing one, whose requirement no article of the list
\* exceeds and which is the first of the list to have it.
C25_GoverningArticleAlone ==
    \A article_ids \in ArticleIdLists :
        LET r == calculate_proposal_requirements(article_ids)
            alone(a) == calculate_proposal_requirements(<<a>>)
        IN  article_ids # <<>> =>
                /\ r.governing_article # None
                /\ r.required_voters =
                       alone(The(r.governing_article)).required_voters
                /\ r.min_participation =
                       alone(The(r.governing_article)).min_participation
                /\ \E i \in 1..Len(article_ids) :
                       /\ article_ids[i] = The(r.governing_article)
                       /\ \A j \in 1..Len(article_ids) :
                              alone(article_ids[j]).required_voters
                                  <= alone(article_ids[i]).required_voters
                       /\ \A j \in 1..(i - 1) :
                              alone(article_ids[j]).required_voters
                                  < alone(article_ids[i]).required_voters

----------------------------------------------------------------------------
(* C26 *)

\* C26: at no time are two writes of a snapshot in progress together.
C26_OneSaveAtATime == Len(executor) <= 1

----------------------------------------------------------------------------
(* C27 *)

\* C27: for previous_voters of 1 or more, required_voters is the whole part
\* of previous_voters * ln(previous_voters) / 100 and min_participation the
\* whole part of previous_voters * (1 - ln(previous_voters) / 100); for
\* previous_voters 0 the requirement is one no tally reaches; neither
\* function raises, and _recalculate_requirements stores what they return.
C27_LogarithmicRequirements ==
    /\ \A previous_voters \in PreviousVoters :
           LET required == calculate_required_voters(previous_voters)
               minimum == calculate_minimum_participation(previous_voters)
           IN  /\ ~required.raised
               /\ ~minimum.raised
               /\ previous_voters >= 1 =>
                      /\ required.value =
                             finite((previous_voters * log_scaled(previous_voters))
                                        \div 1000000)
                      /\ minimum.value =
                             finite(previous_voters
                                        - (previous_voters * log_scaled(previous_voters)
                                               + 999999) \div 1000000)
               /\ previous_voters = 0 =>
                      \A n \in Tallies : ~at_least(n, required.value)
    /\ \A article_id \in DOMAIN constitution :
           LET r == recalculate_requirements(constitution, article_id)
               history == constitution[article_id].history
               previous_voters ==
                   IF history = <<>> THEN 0 ELSE history[Len(history)]
               cached == r.articles[article_id].cached_requirements
           IN  /\ cached # None
               /\ The(cached).required_voters =
                      calculate_required_voters(previous_voters).value
               /\ The(cached).min_participation =
                      calculate_minimum_participation(previous_voters).value

----------------------------------------------------------------------------
(* C28 *)

\* C28: propose_modification stores nothing and returns no id when the
\* proposal has no debate or the article is not one of the proposal's;
\* otherwise it returns the id that follows the number of modifications of
\* the proposal, which no modification of the proposal has, and stores
\* under it a modification of the article in DISCUSSION with no votes,
\* leaving the other modifications as they were.  The ids of the
\* modifications of a proposal are mod_1 to mod_n at all times.
C28_ProposeModification ==
    /\ \A p \in DOMAIN modifications :
           DOMAIN modifications[p] =
               {mod(i) : i \in 1..Cardinality(DOMAIN modifications[p])}
    /\ \A p \in DebateCallers, a \in ProposedArticles :
           LET r == propose_modification(modifications, proposal_articles,
                                         p, a, "A")
           IN  IF \/ p \notin DOMAIN modifications
                  \/ p \notin DOMAIN proposal_articles
                  \/ a \notin proposal_articles[p]
               THEN r.id = None /\ r.modifications = modifications
               ELSE /\ r.id # None
                    /\ The(r.id) = mod(Cardinality(DOMAIN modifications[p]) + 1)
                    /\ The(r.id) \notin DOMAIN modifications[p]
                    /\ DOMAIN r.modifications = DOMAIN modifications
                    /\ DOMAIN r.modifications[p] = DOMAIN modifications[p] \cup r.id
                    /\ r.modifications[p][The(r.id)].article_id = a
                    /\ r.modifications[p][The(r.id)].state = DISCUSSION
                    /\ r.modifications[p][The(r.id)].votes = <<>>
                    /\ \A m \in DOMAIN modifications[p] :
                           r.modifications[p][m] = modifications[p][m]
                    /\ \A q \in DOMAIN modifications \ {p} :
                           r.modifications[q] = modifications[q]

\* a second modification of a proposal has been stored, in DISCUSSION,
\* beside the first
C28_Witness ==
    /\ returned.op = "propose_modification"
    /\ returned.ok
    /\ prop(1) \in DOMAIN modifications
    /\ DOMAIN modifications[prop(1)] = {mod(1), mod(2)}
    /\ modifications[prop(1)][mod(2)].state = DISCUSSION
    /\ modifications[prop(1)][mod(2)].votes = <<>>

----------------------------------------------------------------------------
(* C29 *)

\* C29: vote_modification accepts a vote exactly when the modification
\* exists, is in VOTING and the day is not after its voting deadline; an
\* accepted vote makes the entry of the voter the points given, whatever it
\* was, and changes nothing else; a refused vote changes nothing.
C29_VoteWhileOpen ==
    \A p \in DebateCallers, m \in ModIds, v \in DebateVoters, n \in DebatePoints :
        LET r == vote_modification(modifications, p, m, v, n, now)
        IN  IF /\ p \in DOMAIN modifications
               /\ m \in DOMAIN modifications[p]
               /\ modifications[p][m].state = VOTING
               /\ modifications[p][m].voting_deadline # None
               /\ now <= The(modifications[p][m].voting_deadline)
            THEN /\ r.ok
                 /\ r.modifications =
                        [modifications EXCEPT ![p][m].votes =
                            [w \in DOMAIN @ \cup {v} |-> IF w = v THEN n ELSE @[w]]]
            ELSE /\ ~r.ok
                 /\ r.modifications = modifications

\* a vote has been refused on a modification that is in VOTING and holds a
\* vote, the day being after its deadline
C29_Witness ==
    /\ returned.op = "vote_modification"
    /\ ~returned.ok
    /\ \E p \in DOMAIN modifications :
           /\ DOMAIN modifications[p] = {mod(1)}
           /\ modifications[p][mod(1)].state = VOTING
           /\ modifications[p][mod(1)].votes # <<>>
           /\ now > The(modifications[p][mod(1)].voting_deadline)

----------------------------------------------------------------------------
(* C30 *)

\* C30: the result of a modification says passed exactly when the votes of
\* the modification sum to 100 or more, whatever its article, and the call
\* that computes it leaves the debates as they were.
C30_ResultPassed ==
    [][ /\ \A p \in DOMAIN modifications : \A m \in DOMAIN modifications[p] :
               LET r == get_modification_result(modifications, p, m)
               IN  /\ r # None
                   /\ The(r).passed <=>
                          SumValues(modifications[p][m].votes) >= 100
                   /\ The(r).total_points = SumValues(modifications[p][m].votes)
        /\ returned'.op = "get_modification_result" =>
               /\ modifications' = modifications
               /\ proposal_articles' = proposal_articles
      ]_vars

\* the result of a modification whose votes sum to 100 exactly has been
\* computed, and said passed
C30_Witness ==
    /\ returned.op = "get_modification_result"
    /\ returned.ok
    /\ \E p \in DOMAIN modifications : \E m \in DOMAIN modifications[p] :
           /\ SumValues(modifications[p][m].votes) = 100
           /\ DOMAIN modifications[p] = {m}

----------------------------------------------------------------------------
(* C31 *)

\* d is e but for the entry under k
SameButFor(d, e, k) == DelKey(d, k) = DelKey(e, k)

\* C31: whatever delegation comes next, when it succeeds and closes no
\* cycle it adds the points to the delegation from -> to on both of its
\* ends, takes them off the available_points of from and changes nothing
\* else; the flag of a delegation that was there stays what it was, on both
\* ends, and the flag of a new delegation is the one passed.
C31_DelegateFrame ==
    CallsLeft =>
    \A f \in Ids, t \in Ids, p \in Points, s \in BOOLEAN :
        LET r == delegate_points(voters, f, t, p, s)
            was == HasKey(voters[f].delegations, t)
        IN  (r.ok /\ r.cycles = <<>>) =>
              /\ DOMAIN r.voters = DOMAIN voters
              /\ HasKey(r.voters[f].delegations, t)
              /\ HasKey(r.voters[t].received_points, f)
              /\ Entry(r.voters[f].delegations, t).points =
                     PointsOn(voters[f].delegations, t) + p
              /\ Entry(r.voters[t].received_points, f).points =
                     PointsOn(voters[t].received_points, f) + p
              /\ r.voters[f].available_points = voters[f].available_points - p
              /\ Entry(r.voters[f].delegations, t).subdelegable =
                     IF was THEN Entry(voters[f].delegations, t).subdelegable ELSE s
              /\ Entry(r.voters[t].received_points, f).subdelegable =
                     IF was THEN Entry(voters[t].received_points, f).subdelegable
                     ELSE s
              /\ SameButFor(r.voters[f].delegations, voters[f].delegations, t)
              /\ SameButFor(r.voters[t].received_points, voters[t].received_points, f)
              /\ r.voters[f].received_points = voters[f].received_points
              /\ r.voters[t].delegations = voters[t].delegations
              /\ r.voters[t].available_points = voters[t].available_points
              /\ \A u \in DOMAIN voters \ {f, t} : r.voters[u] = voters[u]

\* a delegation of 400 was added to a delegation of 400 that was there, and
\* closed no cycle
C31_Witness ==
    /\ last.op = "delegate" /\ last.ok /\ last.cycles = 0
    /\ \E u \in DOMAIN voters, v \in DOMAIN voters :
           /\ PointsOn(voters[u].delegations, v) = 800
           /\ PointsOn(voters[v].received_points, u) = 800

----------------------------------------------------------------------------
(* C32 *)

\* the step sets proposal p to ABANDONED
Abandons(p) ==
    /\ proposals[p].state # ABANDONED
    /\ proposals'[p].state = ABANDONED

\* C32: in whatever order the event loop runs the steps of the reaper and
\* of the commits, a proposal is set to ABANDONED only when, at that
\* moment, its last_activity is more than 30 days old, and so is the last
\* commit recorded on it: a commit that recorded before the reaper's step
\* keeps the proposal from being abandoned in that pass.
C32_ReaperAtomic ==
    [][ \A p \in DOMAIN proposals :
            Abandons(p) =>
                /\ now - proposals[p].last_activity > abandon_threshold
                /\ mutated[p] # None =>
                       now - The(mutated[p]) > abandon_threshold
      ]_vars

\* the pass of the reaper is over: it abandoned the second proposal and
\* left the first, on which a commit had recorded on the day of the pass
\* before the reaper came to it
C32_Witness ==
    /\ \E t \in DOMAIN tasks :
           /\ tasks[t].op = "check_abandoned_proposals"
           /\ tasks[t].pc = "done"
           /\ tasks[t].ok
    /\ DOMAIN proposals = {prop(1), prop(2)}
    /\ proposals[prop(1)].state # ABANDONED
    /\ mutated[prop(1)] = Some(now)
    /\ now > abandon_threshold
    /\ last_cleanup = now
    /\ proposals[prop(2)].state = ABANDONED
    /\ mutated[prop(2)] = None

----------------------------------------------------------------------------
(* C33 *)

\* C33: a call of commit_points that returns False leaves the registry as
\* it was: article_votes and last_activity of every proposal are those of
\* before the call.
C33_FailedCommitChangesNothing ==
    [][ (returned'.op = "commit_points" /\ ~returned'.ok) =>
            \A p \in DOMAIN proposals :
                /\ proposals'[p].article_votes = proposals[p].article_votes
                /\ proposals'[p].last_activity = proposals[p].last_activity
      ]_vars

----------------------------------------------------------------------------
(* C34 *)

\* C34: start_modification_vote on a modification that is not in DISCUSSION
\* is refused and leaves the modification, its state and its deadline as
\* they were.
C34_StartOnlyFromDiscussion ==
    [][ returned'.op = "start_modification_vote" =>
            \A p \in DOMAIN modifications :
                \A m \in DOMAIN modifications[p] :
                    modifications[p][m].state # DISCUSSION =>
                        modifications'[p][m] = modifications[p][m]
      ]_vars

----------------------------------------------------------------------------
(* C35 *)

\* C35: the two ends of an edge agree.  For all voters a and b,
\* b.received_points holds an entry of a exactly when a.delegations holds
\* an entry of b, and the two entries hold the same points and the same
\* subdelegable flag.
C35_TwoEndsAgreeWithFlag ==
    \A a \in DOMAIN voters, b \in DOMAIN voters :
        /\ HasKey(voters[b].received_points, a) <=> HasKey(voters[a].delegations, b)
        /\ HasKey(voters[a].delegations, b) =>
              /\ Entry(voters[b].received_points, a).points =
                     Entry(voters[a].delegations, b).points
              /\ Entry(voters[b].received_points, a).subdelegable =
                     Entry(voters[a].delegations, b).subdelegable

\* a ledger that holds an edge entered as not subdelegable and an edge
\* entered as subdelegable, left by a revoke that removed a third
C35_Witness ==
    /\ \E a \in DOMAIN voters, b \in DOMAIN voters :
           /\ HasKey(voters[a].delegations, b)
           /\ ~Entry(voters[a].delegations, b).subdelegable
    /\ \E a \in DOMAIN voters, b \in DOMAIN voters :
           /\ HasKey(voters[a].delegations, b)
           /\ Entry(voters[a].delegations, b).subdelegable
    /\ last.op = "revoke"
    /\ last.ok

----------------------------------------------------------------------------
(* C36 *)

\* C36: every stored delegation entry and every stored received entry
\* holds points > 0, after any sequence of ledger operations, the calls
\* that resolve several cycles one after the other included.
C36_StoredPointsPositive ==
    \A u \in DOMAIN voters :
        /\ \A i \in 1..Len(voters[u].delegations) :
               voters[u].delegations[i].points > 0
        /\ \A i \in 1..Len(voters[u].received_points) :
               voters[u].received_points[i].points > 0

\* a call has resolved two cycles, the second listed before the first was
\* resolved, and the ledger still holds a delegation
C36_Witness ==
    /\ last.op \in {"delegate", "subdelegate"}
    /\ last.ok
    /\ last.cycles >= 2
    /\ \E u \in DOMAIN voters : voters[u].delegations # <<>>

----------------------------------------------------------------------------
(* C37 *)

\* C37: the available_points of every voter stay within
\* 0 <= available_points <= base_points - RESERVED_POINTS, after any
\* sequence of ledger operations.
C37_AvailableWithinBounds ==
    \A u \in DOMAIN voters :
        /\ 0 <= voters[u].available_points
        /\ voters[u].available_points <= base_points - RESERVED_POINTS

----------------------------------------------------------------------------
(* C39 *)

\* C39: a voter delegating to itself changes nothing.  delegate_points(a,
\* a, points) with 0 < points <= a's delegable points returns True, finds
\* the cycle of a alone, and leaves a with no delegation to itself and the
\* ledger, a's available_points, delegations and received entries
\* included, as it was before the call.
C39_SelfDelegationChangesNothing ==
    CallsLeft =>
    \A a \in DOMAIN voters, p \in Points, s \in BOOLEAN :
        (0 < p /\ p <= get_delegatable_points(voters[a])) =>
            LET r == delegate_points(voters, a, a, p, s)
            IN  /\ r.ok
                /\ HasKey(r.entered[a].delegations, a)
                /\ r.cycles = << <<a>> >>
                /\ ~HasKey(r.voters[a].delegations, a)
                /\ ~HasKey(r.voters[a].received_points, a)
                /\ r.voters = voters

\* a call of delegate_points has resolved one cycle and left a ledger of
\* two voters in which B delegates 400 to A, each voter's points add up to
\* 998 and nobody delegates to itself: the ledger a self-delegation of A or
\* of B leaves
C39_Witness ==
    /\ last.op = "delegate"
    /\ last.ok
    /\ last.cycles = 1
    /\ DOMAIN voters = {"A", "B"}
    /\ voters["A"].available_points = 998
    /\ voters["A"].delegations = <<>>
    /\ voters["B"].available_points = 598
    /\ Delegates(voters, "B") = {"A"}
    /\ PointsOn(voters["B"].delegations, "A") = 400

----------------------------------------------------------------------------
(* C40 *)

\* the supporting points the commits recorded on the proposal: the sum of
\* the entries above 0 of its article_votes
RECURSIVE SupportOver(_, _)
SupportOver(article_votes, articles) ==
    IF articles = {} THEN 0
    ELSE LET a == CHOOSE x \in articles : TRUE
             tally == article_votes[a]
             cast == [v \in DOMAIN tally |-> IF tally[v] > 0 THEN tally[v] ELSE 0]
         IN  SumValues(cast) + SupportOver(article_votes, articles \ {a})

CommittedSupport(P) == SupportOver(P.article_votes, DOMAIN P.article_votes)

\* C40: a proposal in VOTING whose deadline has passed and whose recorded
\* supporting commits total at least required_voters and at least
\* min_participation can be closed: can_close_proposal returns True.
C40_ClosingReadsCommits ==
    \A p \in DOMAIN proposals :
        LET P == proposals[p]
        IN  ( /\ P.state = VOTING
              /\ P.deadline # None
              /\ now >= The(P.deadline)
              /\ mutated[p] # None
              /\ CommittedSupport(P) > 0
              /\ CommittedSupport(P) >= P.required_voters
              /\ P.min_participation # None =>
                     CommittedSupport(P) >= The(P.min_participation) )
            => can_close_proposal(proposals, proposal_locks, p, now).ok

----------------------------------------------------------------------------
(* C38 *)

\* the delegations of the ledger, as pairs of voters
EdgeSet(V) ==
    UNION { {<<u, V[u].delegations[i].id>> : i \in 1..Len(V[u].delegations)} :
            u \in DOMAIN V }

EdgeCount(V) == Cardinality(EdgeSet(V))

\* the delegations of the cycle that the ledger holds, as pairs of voters
PresentEdges(V, cycle) ==
    {<<e.from, e.to>> : e \in CycleEdgeSet(cycle)} \cap EdgeSet(V)

\* the behaviour of SpecLoaded goes on with another call
LoadedCallsLeft == nops < MaxLoadedOps

\* C38 as stated: in every call of delegate_points, on ledgers that hold
\* cycles already too, each resolution pass leaves fewer delegations than
\* it found.
C38_AsStated ==
    LoadedCallsLeft =>
    \A f \in Ids, t \in Ids, p \in CyclePoints, s \in BOOLEAN :
        LET r == delegate_points(voters, f, t, p, s)
        IN  \A n \in 1..Len(r.cycles) :
                LET before == clean_cycles(r.entered, r.cycles, n - 1)
                    after  == clean_delegation_cycle(before, r.cycles[n])
                IN  EdgeCount(after) < EdgeCount(before)

\* C38, amended: every call of delegate_points returns, on ledgers that
\* hold cycles already too.  The cycles the detection lists are sequences
\* of distinct voters, so they are finitely many, and there is one
\* resolution pass for each.  A pass that finds a delegation of its cycle
\* uses m > 0, removes at least one delegation of the cycle and adds none,
\* so it leaves fewer delegations than it found; a pass that finds none,
\* the passes before having removed them all, leaves the ledger as it is.
C38_PassesShrinkOrSkip ==
    LoadedCallsLeft =>
    \A f \in Ids, t \in Ids, p \in CyclePoints, s \in BOOLEAN :
        LET r == delegate_points(voters, f, t, p, s)
        IN  /\ r.voters = clean_cycles(r.entered, r.cycles, Len(r.cycles))
            /\ \A n \in 1..Len(r.cycles) :
                   LET cycle  == r.cycles[n]
                       before == clean_cycles(r.entered, r.cycles, n - 1)
                       after  == clean_delegation_cycle(before, cycle)
                       cds    == cycle_delegations(before, cycle)
                   IN  /\ cycle # <<>>
                       /\ \A i \in 1..Len(cycle), j \in 1..Len(cycle) :
                              cycle[i] = cycle[j] => i = j
                       /\ IF PresentEdges(before, cycle) = {}
                          THEN after = before
                          ELSE /\ min_points(cds) > 0
                               /\ EdgeSet(after) \subseteq EdgeSet(before)
                               /\ PresentEdges(after, cycle) # PresentEdges(before, cycle)
                               /\ EdgeCount(after) < EdgeCount(before)

\* the first call on a loaded ledger made three resolution passes or more,
\* which three voters allow only when the ledger held a cycle already
C38_Witness ==
    /\ nops = 1
    /\ last.op = "delegate"
    /\ last.ok
    /\ last.cycles >= 3

====
